---- MODULE Spec2Model ----
(***************************************************************************)
(* Batching and conversation-flush pipeline of the WhatsApp agent:         *)
(*   - the batch coalescer (buffer/bufferManager.ts, whose source is not   *)
(*     part of src/: it is modelled from spec.md section 4.1),             *)
(*   - the conversation state store (getHistory / addToHistory) of         *)
(*     conversation/historyManager.ts, with its in-memory fallback,        *)
(*   - flushConversation, in both revisions found in historyManager.ts     *)
(*     (revision 1: lines 145-316, revision 2: lines 578-644).             *)
(* One step of the model is the code that runs between two awaited         *)
(* external calls (Node runs it without interleaving).                     *)
(***************************************************************************)
EXTENDS Integers, Sequences, FiniteSets, TLC

(***************************************************************************)
(* Bounds of the model.                                                    *)
(***************************************************************************)
MaxMsgs == 2              \* inbound turns over a whole run
MaxTime == 4              \* clock ticks over a whole run
MaxFaults == 1            \* failing store calls over a whole run
MaxHistoryMessages == 3   \* config.maxHistoryMessages, scaled down
BatchWindow == 2          \* config.batchWindowMs, in clock ticks
CatalogSize == 2          \* entries of the media catalog
MaxAppends == 5           \* store specification: addToHistory calls per run
MaxStoreFaults == 4       \* store specification: failing store calls per run
MaxPairMsgs == 1          \* two-correspondent specification: inbound turns of each
MaxSends == 2             \* send specification: send calls per run
MaxLines == 3             \* reply specification: lines of a completion response
MaxTextLines == 4         \* text specification: lines of a completion response
MaxPromptHistory == 2     \* prompt specification: turns of the log
MaxPromptBatch == 2       \* prompt specification: messages of the batch
MaxChunks == 2            \* prompt specification: snippets the search returns
MaxQueryWords == 2        \* media specification: words of the query
MaxCatalog == 2           \* media specification: entries of the catalog
MaxResets == 4            \* summary specification: resetSummaryTimer calls
MaxSummaryMin == 2        \* summary specification: config.summaryMinMessages
MaxInbound == 2           \* opt-out specification: inbound messages
MaxInboundFaults == 1     \* opt-out specification: store calls that throw
MaxTicks == 2             \* reminder specification: ticks of the scheduler
MaxReminderFaults == 1    \* reminder specification: store calls that throw

Phones == {1}              \* the correspondents of the pipeline specification

VARIABLES
  variant,    \* 1 or 2: the revision of flushConversation that is loaded
  redisOn,    \* getRedis() # null
  voiceOn,    \* config.voiceRepliesEnabled
  redis,      \* redis[p]: value of key chat:{p}; <<>> when the key is absent
  mem,        \* conversationHistory.get(p); <<>> when there is no entry
  buffer,     \* pending batch of p
  timer,      \* 0: no debounce timer pending for p; else its deadline
  now,        \* clock
  flushes,    \* every flushConversation invocation, in invocation order
  outbox,     \* every call of the transport (sendTextMessage, sendMedia, voice)
  arrived,    \* history variable: arrived[p], the turns passed to onIncoming
  burstFrom,  \* history variable: position in arrived[p] of the turn that set the timer
  faults,     \* failed store calls so far
  appended,   \* history variable (store specification): turns given to addToHistory
  call,       \* send specification: the send call in progress, or the last one
  reply,      \* text specification: a completion response and what is made of it
  prompt,     \* prompt specification: a buildPromptMessages call
  customer,   \* profile specification: customer[p], every value written to the key
              \* customer:{p}, oldest first; the last one is the value of the key
  match,      \* media specification: a MediaService.findBestMatch call
  schedulers, \* summary specification: the schedulers map of summaryScheduler.ts
              \* for one phone, its timers and its triggerSummary calls
  inbound,    \* opt-out specification: the processMessage calls, the opt-out key
              \* and what was handed to the buffer and to the transport
  reminders   \* reminder specification: the meeting key, the checkMeetings runs
              \* and the reminders sent

\* the state of the services beside the pipeline
svcVars == <<match, schedulers, inbound, reminders>>

\* the state of the pipeline, of its store, of its transport and of its prompt
pipeVars == <<variant, redisOn, voiceOn, redis, mem, buffer, timer, now, flushes,
              outbox, arrived, burstFrom, faults, appended, call, reply, prompt,
              customer>>

vars == <<pipeVars, svcVars>>

\* what no step of the pipeline or of the store changes: the configuration, the
\* send call of the send specification, the reply of the text specification,
\* the call of the prompt specification and the profiles of the profile
\* specification
auxVars == <<call, reply, prompt, svcVars>>
cfgVars == <<variant, redisOn, voiceOn, auxVars, customer>>

NoCustomer == [p \in Phones |-> <<>>]
coalVars == <<buffer, timer, arrived, burstFrom>>

(***************************************************************************)
(* Sequences                                                               *)
(***************************************************************************)
Range(s) == {s[i] : i \in DOMAIN s}

\* the sequences of at most n elements of S
RECURSIVE SeqsUpTo(_, _)
SeqsUpTo(S, n) ==
  IF n = 0 THEN {<<>>}
  ELSE LET shorter == SeqsUpTo(S, n - 1)
       IN shorter \cup {Append(q, x) : q \in shorter, x \in S}

(***************************************************************************)
(* The text of a completion response.  A text is a sequence of tokens: a   *)
(* letter, a blank, a line feed, a whole directive tag "[MEDIA: id]" or a  *)
(* whole sent-media marker of revision 2.  The operators below do to it    *)
(* what split, trim, join, match and replace do to the string.             *)
(***************************************************************************)
Ch(c) == [c |-> c, id |-> 0]
MediaTag(id) == [c |-> "[MEDIA:]", id |-> id]
SentMarker(id) == [c |-> "(sent #)", id |-> id]
NL == Ch("\n")
SP == Ch(" ")

\* \s
IsSpace(t) == t \in {SP, NL}

IsMediaTag(t) == t.c = "[MEDIA:]"
IsSentMarker(t) == t.c = "(sent #)"

\* response.split('\n')
RECURSIVE Split(_)
Split(text) ==
  IF \A k \in DOMAIN text : text[k] # NL THEN <<text>>
  ELSE LET k == CHOOSE j \in DOMAIN text :
                  text[j] = NL /\ \A m \in 1..(j - 1) : text[m] # NL
       IN <<SubSeq(text, 1, k - 1)>> \o Split(SubSeq(text, k + 1, Len(text)))

\* lines.join('\n')
RECURSIVE Join(_)
Join(lines) ==
  IF lines = <<>> THEN <<>>
  ELSE IF Len(lines) = 1 THEN lines[1]
  ELSE lines[1] \o <<NL>> \o Join(Tail(lines))

\* text.trim()
RECURSIVE Trim(_)
Trim(text) ==
  IF text = <<>> THEN <<>>
  ELSE IF IsSpace(Head(text)) THEN Trim(Tail(text))
  ELSE IF IsSpace(text[Len(text)]) THEN Trim(SubSeq(text, 1, Len(text) - 1))
  ELSE text

\* line.match(/\[MEDIA:\s*(\d+)\s*\]/i), line.match(/\(sent-marker #(\d+)\)/)
HasMediaTag(line) == \E k \in DOMAIN line : IsMediaTag(line[k])
HasSentMarker(line) == \E k \in DOMAIN line : IsSentMarker(line[k])

\* the line is taken as a directive: revision 2 also takes a marker line as one
IsDirectiveLine(line, v) == HasMediaTag(line) \/ (v = 2 /\ HasSentMarker(line))

\* parseInt(match[1], 10) of the first match; the tag pattern goes first
DirectiveId(line) ==
  LET first(P(_)) == line[CHOOSE k \in DOMAIN line :
                             P(line[k]) /\ \A m \in 1..(k - 1) : ~P(line[m])].id
  IN IF HasMediaTag(line) THEN first(IsMediaTag) ELSE first(IsSentMarker)

\* nextLine && !nextLine.match(/\[MEDIA:/i) (and, revision 2, not a marker line)
IsCaptionNever(nextLine, v) == FALSE

IsCaption(nextLine, v) == nextLine # <<>> /\ ~IsDirectiveLine(nextLine, v)

\* the loop over the lines, from line i on; seen is seenIds of revision 2
RECURSIVE ParseLoop(_, _, _, _)
ParseLoop(lines, i, v, seen) ==
  IF i > Len(lines) THEN [textLines |-> <<>>, mediaRequests |-> <<>>]
  ELSE
    LET line == lines[i] IN
    IF IsDirectiveLine(line, v)
    THEN LET id == DirectiveId(line) IN
         IF v = 2 /\ id \in seen THEN ParseLoop(lines, i + 1, v, seen)
         ELSE LET cap == i + 1 <= Len(lines) /\ IsCaption(Trim(lines[i + 1]), v)
                  rest == ParseLoop(lines, IF cap THEN i + 2 ELSE i + 1, v,
                                    seen \cup {id})
              IN [textLines |-> rest.textLines,
                  mediaRequests |->
                    <<[id |-> id,
                       caption |-> IF cap THEN Trim(lines[i + 1]) ELSE <<>>]>>
                    \o rest.mediaRequests]
    ELSE LET rest == ParseLoop(lines, i + 1, v, seen) IN
         IF Trim(line) # <<>>
         THEN [rest EXCEPT !.textLines = <<line>> \o @]
         ELSE rest

parseAIResponse(response, v) == ParseLoop(Split(response), 1, v, {})

\* text.replace(/\s+/g, " ")
RECURSIVE CollapseSpaces(_)
CollapseSpaces(text) ==
  IF text = <<>> THEN <<>>
  ELSE IF IsSpace(Head(text))
       THEN IF Len(text) > 1 /\ IsSpace(text[2]) THEN CollapseSpaces(Tail(text))
            ELSE <<SP>> \o CollapseSpaces(Tail(text))
       ELSE <<Head(text)>> \o CollapseSpaces(Tail(text))

cleanMarkersForClient(text) ==
  Trim(CollapseSpaces(SelectSeq(text, LAMBDA t : ~IsSentMarker(t))))

\* the prose of the response: finalResponse of revision 1 (the response itself
\* when it holds no directive), textContent of revision 2
TextContent(response, parsed, v) ==
  IF v = 1 /\ parsed.mediaRequests = <<>> THEN response
  ELSE Trim(Join(parsed.textLines))

\* what is passed to sendTextMessage (and before it to the voice reply):
\* finalResponse of revision 1, cleanText of revision 2
FinalText(textContent, v) ==
  IF v = 1 THEN textContent ELSE cleanMarkersForClient(textContent)

NoReply == [pc |-> "none", response |-> <<>>, textLines |-> <<>>,
            textContent |-> <<>>, mediaRequests |-> <<>>, text |-> <<>>]

\* the response is parsed
ParseResponse ==
  /\ reply.pc = "response"
  /\ LET parsed == parseAIResponse(reply.response, variant) IN
       reply' = [reply EXCEPT !.pc = "parsed",
                              !.textLines = parsed.textLines,
                              !.textContent = TextContent(reply.response, parsed, variant),
                              !.mediaRequests = parsed.mediaRequests]
  /\ UNCHANGED <<variant, redisOn, voiceOn, call, prompt, customer, svcVars, coalVars, redis, mem, now,
                 flushes, outbox, faults, appended>>

\* the text for the correspondent is made; it is dispatched when not empty
DispatchText ==
  /\ reply.pc = "parsed"
  /\ reply' = [reply EXCEPT !.pc = "text",
                            !.text = FinalText(reply.textContent, variant)]
  /\ UNCHANGED <<variant, redisOn, voiceOn, call, prompt, customer, svcVars, coalVars, redis, mem, now,
                 flushes, outbox, faults, appended>>

(***************************************************************************)
(* Turns.  The content of a turn keeps what the pipeline reads back from   *)
(* it: the sent-media markers it holds, in order, and its prose.  "by" is  *)
(* a history field: the flush that wrote the turn (0: none).               *)
(***************************************************************************)
Content(marks, text) == [marks |-> marks, text |-> text]

UserTurn(msg, by) ==
  [role |-> "user", content |-> Content(<<>>, <<"u">>), timestamp |-> msg.ts, by |-> by]

(***************************************************************************)
(* Conversation state store                                                *)
(***************************************************************************)
\* history.slice(history.length - max) / history.splice(0, history.length - max)
Truncate(h) ==
  IF Len(h) > MaxHistoryMessages
  THEN SubSeq(h, Len(h) - MaxHistoryMessages + 1, Len(h))
  ELSE h

\* getRedisKey (lines 31-33 / 388-390): the store key of a correspondent; the
\* in-memory map is keyed by the phone itself
RedisKeyShared(p) == 1

RedisKey(p) == p

\* getHistory: the value of the store when it is there and the read succeeds, else
\* the in-memory array itself (alias: later pushes to it are seen by the holder)
\* or a fresh empty array when the map has no entry.
GetHistoryStoreOnly(p, fail) == [alias |-> FALSE, val |-> redis[RedisKey(p)]]

GetHistory(p, fail) ==
  IF redisOn /\ ~fail
  THEN [alias |-> FALSE, val |-> redis[RedisKey(p)]]
  ELSE [alias |-> mem[p] # <<>>, val |-> mem[p]]

\* the array a holder of h sees now, m being the in-memory array of that phone
Deref(h, m) == IF h.alias THEN m ELSE h.val

\* addToHistory, store branch, after its read returned h: history.push(message)
\* lands in the in-memory array when h is that array
PushedMem(h, m, t) == IF h.alias THEN Append(m, t) ELSE m

\* addToHistory, store branch: the value handed to redis.setex
ToWrite(h, m, t) == Truncate(Append(Deref(h, m), t))

\* addToHistory, in-memory branch
MemoryAppend(m, t) == Truncate(Append(m, t))

\* The log of p as getHistory returns it when the store call succeeds
Log(p) == IF redisOn THEN redis[RedisKey(p)] ELSE mem[p]

(***************************************************************************)
(* Batch coalescer (modelled from spec.md 4.1)                             *)
(***************************************************************************)
\* The next inbound turn of p: ts numbers the turns of p; "at" is a history field,
\* the time the turn was passed to onIncoming.
NewMsg(p) == [phone |-> p, ts |-> Len(arrived[p]) + 1, at |-> now]

\* "if no timer is running for this correspondent, start one ...; if one is
\*  running, leave it running"
StartTimerSliding(t, n) == n + BatchWindow

StartTimer(t, n) == IF t = 0 THEN n + BatchWindow ELSE t

\* the pending batch after a turn was passed to onIncoming
AccumulateNewestOnly(b, msg) == <<msg>>

Accumulate(b, msg) == Append(b, msg)

\* the pending batch after the timer expired: ownership was taken
AfterCaptureKeepsBatch(b) == b

AfterCapture(b) == <<>>

\* buildPrompt.ts line 135: { name: null, gender: null }
NoInfo == [from |-> "none", gender |-> "none"]

NewFlush(p, batch, h, pc) ==
  [phone |-> p, batch |-> batch, at |-> now, pc |-> pc, hist |-> h,
   pre |-> Deref(h, mem[p]), resp |-> <<>>, failed |-> FALSE,
   q |-> <<>>, stage |-> "none", rd |-> h, send |-> <<>>, k |-> 0,
   ids |-> <<>>, text |-> <<>>, threw |-> FALSE, info |-> NoInfo]

NoHist == [alias |-> FALSE, val |-> <<>>]

OnIncoming(p) ==
  /\ buffer' = [buffer EXCEPT ![p] = Accumulate(@, NewMsg(p))]
  /\ timer' = [timer EXCEPT ![p] = StartTimer(@, now)]
  /\ arrived' = [arrived EXCEPT ![p] = Append(@, NewMsg(p))]
  /\ burstFrom' = [burstFrom EXCEPT ![p] = IF timer[p] = 0 THEN Len(arrived[p]) + 1 ELSE @]
  /\ UNCHANGED <<cfgVars, redis, mem, now, flushes, outbox, faults, appended>>

\* The timer callback: capture and clear the batch, then call flushConversation,
\* which runs up to its first awaited call (the store read; without a store the
\* read is immediate and the first awaited call is in buildPromptMessages).
TimerExpire(p) ==
  /\ timer[p] # 0
  /\ timer[p] <= now
  /\ buffer' = [buffer EXCEPT ![p] = AfterCapture(@)]
  /\ timer' = [timer EXCEPT ![p] = 0]
  /\ flushes' = Append(flushes,
        IF redisOn THEN NewFlush(p, buffer[p], NoHist, "read")
        ELSE NewFlush(p, buffer[p], GetHistory(p, FALSE), "ask"))
  /\ UNCHANGED <<cfgVars, redis, mem, now, outbox, arrived, burstFrom, faults, appended>>

\* Time passes; a due timer fires before the clock moves on.
Tick ==
  /\ \A p \in DOMAIN timer : timer[p] = 0 \/ timer[p] > now
  /\ now' = now + 1
  /\ UNCHANGED <<cfgVars, coalVars, redis, mem, flushes, outbox, faults, appended>>

(***************************************************************************)
(* Completion responses.  A response is a sequence of lines; a line holds  *)
(* its prose (txt, "" for none), the id of a [MEDIA: id] tag in it (NoTag  *)
(* for none) and the ids of the sent-media marker tokens it contains, in   *)
(* the marker syntax of the loaded revision.                               *)
(***************************************************************************)
NoTag == -1
Null == <<>>                \* askOpenAI returned null or "": !response holds

Line(txt, tag, marks) == [txt |-> txt, tag |-> tag, marks |-> marks]
Prose(txt) == Line(txt, NoTag, <<>>)
Directive(id) == Line("", id, <<>>)
MarkerLine(id) == Line("", NoTag, <<id>>)
BlankLine == Line("", NoTag, <<>>)

\* line.trim() is not the empty string
NonBlank(l) == l.txt # "" \/ l.tag # NoTag \/ l.marks # <<>>

\* revision 1, lines 176-200: the parse loop of flushConversation
RECURSIVE ParseV1(_, _)
ParseV1(lines, i) ==
  IF i > Len(lines) THEN [requests |-> <<>>, remaining |-> <<>>]
  ELSE IF lines[i].tag # NoTag
  THEN LET cap == i + 1 <= Len(lines) /\ NonBlank(lines[i + 1])
                  /\ lines[i + 1].tag = NoTag
           r == ParseV1(lines, IF cap THEN i + 2 ELSE i + 1)
       IN [requests |-> <<[id |-> lines[i].tag,
                           caption |-> IF cap THEN lines[i + 1] ELSE BlankLine]>>
                        \o r.requests,
           remaining |-> r.remaining]
  ELSE LET r == ParseV1(lines, i + 1)
       IN IF NonBlank(lines[i])
          THEN [requests |-> r.requests, remaining |-> <<lines[i]>> \o r.remaining]
          ELSE r

\* revision 2, lines 506-545: parseAIResponse
IsDirectiveV2(l) == l.tag # NoTag \/ l.marks # <<>>

RECURSIVE ParseV2(_, _, _)
ParseV2(lines, i, seen) ==
  IF i > Len(lines) THEN [requests |-> <<>>, remaining |-> <<>>]
  ELSE IF IsDirectiveV2(lines[i])
  THEN LET id == IF lines[i].tag # NoTag THEN lines[i].tag ELSE Head(lines[i].marks)
       IN IF id \in seen THEN ParseV2(lines, i + 1, seen)
          ELSE LET cap == i + 1 <= Len(lines) /\ NonBlank(lines[i + 1])
                          /\ ~IsDirectiveV2(lines[i + 1])
                   r == ParseV2(lines, IF cap THEN i + 2 ELSE i + 1, seen \cup {id})
               IN [requests |-> <<[id |-> id,
                                   caption |-> IF cap THEN lines[i + 1] ELSE BlankLine]>>
                                \o r.requests,
                   remaining |-> r.remaining]
  ELSE LET r == ParseV2(lines, i + 1, seen)
       IN IF NonBlank(lines[i])
          THEN [requests |-> r.requests, remaining |-> <<lines[i]>> \o r.remaining]
          ELSE r

Parse(resp) == IF variant = 1 THEN ParseV1(resp, 1) ELSE ParseV2(resp, 1, {})

\* getSentMediaIdsFromHistory (lines 18-29) / getSentMediaIds (lines 375-386)
RECURSIVE GetSentMediaIds(_)
GetSentMediaIds(history) ==
  IF history = <<>> THEN {}
  ELSE (IF Head(history).role = "assistant"
        THEN Range(Head(history).content.marks) ELSE {})
       \cup GetSentMediaIds(Tail(history))

\* getMediaById (part_001, lines 74-84) finds an asset
ResolvesAlways(id) == TRUE

Resolves(id) == id - 1 >= 0 /\ id - 1 < CatalogSize

RECURSIVE SelectReq(_, _)
SelectReq(reqs, sent) ==
  IF reqs = <<>> THEN <<>>
  ELSE (IF Head(reqs).id \notin sent /\ Resolves(Head(reqs).id)
        THEN <<Head(reqs)>> ELSE <<>>) \o SelectReq(Tail(reqs), sent)

\* the directives a flush goes on to dispatch: not already marked in the history it
\* holds, and resolving in the catalog (lines 213-228; 605 and 553-559)
MediaToSend(reqs, history) == SelectReq(reqs, GetSentMediaIds(history))

RECURSIVE IdsOf(_)
IdsOf(reqs) == IF reqs = <<>> THEN <<>> ELSE <<Head(reqs).id>> \o IdsOf(Tail(reqs))

RECURSIVE MarksOf(_)
MarksOf(lines) == IF lines = <<>> THEN <<>> ELSE Head(lines).marks \o MarksOf(Tail(lines))

RECURSIVE TextOf(_)
TextOf(lines) ==
  IF lines = <<>> THEN <<>>
  ELSE (IF Head(lines).txt # "" THEN <<Head(lines).txt>> ELSE <<>>) \o TextOf(Tail(lines))

\* The content of the agent turn: the markers of the ids in sentIds, then the
\* response with its [MEDIA: id] tags removed (lines 231-232, 277; 495-504)
HistoryContent(resp, sentIds) == Content(sentIds \o MarksOf(resp), TextOf(resp))

AgentTurn(resp, sentIds, by) ==
  [role |-> "assistant", content |-> HistoryContent(resp, sentIds),
   timestamp |-> now, by |-> by]

\* The prose given to the voice or text reply: its lines, and what joins them.
\* Revision 1 (lines 172, 266): the raw response when it holds no directive, else
\* the remaining lines.  Revision 2 (lines 603, 616, 371-373): the remaining lines
\* with every run of white space, line breaks included, turned into one space.
FinalResponse(resp) ==
  IF variant = 1
  THEN [sep |-> "\n",
        parts |-> IF ParseV1(resp, 1).requests # <<>>
                  THEN ParseV1(resp, 1).remaining ELSE resp]
  ELSE [sep |-> " ", parts |-> ParseV2(resp, 1, {}).remaining]

\* if (finalResponse) / if (cleanText): there is something to say
HasProse(resp) ==
  IF variant = 1 /\ ParseV1(resp, 1).requests = <<>> THEN TRUE
  ELSE FinalResponse(resp).parts # <<>>

Apology == [sep |-> "", parts |-> <<Prose("apology")>>]

(***************************************************************************)
(* flushConversation                                                       *)
(***************************************************************************)
Sent(kind, f, i, id, body, ok) ==
  [to |-> f.phone, kind |-> kind, id |-> id, body |-> body, by |-> i, ok |-> ok,
   wait |-> 0]

RECURSIVE UserTurns(_, _)
UserTurns(batch, by) ==
  IF batch = <<>> THEN <<>> ELSE <<UserTurn(Head(batch), by)>> \o UserTurns(Tail(batch), by)

\* The flush is about to reply (lines 282-309; 616-637): a voice reply is tried
\* first when enabled and no media went out, else the prose goes out as text,
\* else the flush is over.
ReplyPcVoiceDespiteMedia(f) ==
  IF variant = 1
  THEN (IF voiceOn THEN "voice"
        ELSE IF HasProse(f.resp) THEN "text" ELSE "done")
  ELSE (IF ~HasProse(f.resp) THEN "done"
        ELSE IF voiceOn THEN "voice" ELSE "text")

ReplyPc(f) ==
  IF variant = 1
  THEN (IF voiceOn /\ f.k = 0 THEN "voice"
        ELSE IF HasProse(f.resp) THEN "text" ELSE "done")
  ELSE (IF ~HasProse(f.resp) THEN "done"
        ELSE IF voiceOn /\ f.k = 0 THEN "voice" ELSE "text")

\* Runs flush f, whose index is i, from the code point it is at up to its next
\* awaited external call; m is the in-memory array of its phone.  Pending
\* addToHistory calls (f.q) are done on the spot when there is no store, and wait
\* for the store read otherwise.
RECURSIVE Run(_, _, _)
Run(f, i, m) ==
  IF f.pc = "apology" THEN [f |-> f, m |-> m]
  ELSE IF f.q # <<>>
  THEN IF redisOn THEN [f |-> [f EXCEPT !.pc = "aget"], m |-> m]
       ELSE Run([f EXCEPT !.q = Tail(@)], i, MemoryAppend(m, Head(f.q)))
  ELSE IF f.stage = "users"
  THEN LET send == MediaToSend(Parse(f.resp).requests, Deref(f.hist, m))
           g == [f EXCEPT !.send = send]
       IN IF variant = 1
          THEN Run([g EXCEPT !.stage = "agent",
                             !.q = <<AgentTurn(f.resp, IdsOf(send), i)>>], i, m)
          ELSE IF send # <<>>
          THEN [f |-> [g EXCEPT !.stage = "media", !.pc = "media"], m |-> m]
          ELSE Run([g EXCEPT !.stage = "agent",
                             !.q = <<AgentTurn(f.resp, <<>>, i)>>], i, m)
  ELSE IF f.stage = "agent"
  THEN IF variant = 1 /\ f.send # <<>> /\ f.k = 0
       THEN [f |-> [f EXCEPT !.stage = "media", !.pc = "media"], m |-> m]
       ELSE [f |-> [f EXCEPT !.stage = "reply", !.pc = ReplyPc(f)], m |-> m]
  ELSE \* f.stage = "media": every item went out
       IF variant = 1
       THEN [f |-> [f EXCEPT !.stage = "reply", !.pc = ReplyPc(f)], m |-> m]
       ELSE Run([f EXCEPT !.stage = "agent",
                          !.q = <<AgentTurn(f.resp, IdsOf(f.send), i)>>], i, m)

Proceed(i, f, m) ==
  LET r == Run(f, i, m)
  IN /\ flushes' = [flushes EXCEPT ![i] = r.f]
     /\ mem' = [mem EXCEPT ![f.phone] = r.m]

Count(fail) == IF fail THEN faults + 1 ELSE faults

\* line 150 / 583: the store read of getHistory returns, or throws
FlushRead(i, fail) ==
  LET f == flushes[i] IN
  /\ f.pc = "read"
  /\ flushes' = [flushes EXCEPT ![i] =
        [f EXCEPT !.pc = "ask", !.hist = GetHistory(f.phone, fail),
                  !.pre = Deref(GetHistory(f.phone, fail), mem[f.phone])]]
  /\ faults' = Count(fail)
  /\ UNCHANGED <<cfgVars, coalVars, redis, mem, now, outbox, appended>>

\* the agent-side effect of a null completion (lines 154-159; 587-591)
OnNullPersistsAgentTurn(f, i) ==
  [f EXCEPT !.failed = TRUE, !.stage = "agent", !.q = <<AgentTurn(<<>>, <<>>, i)>>]

\* a null completion after which the user turns of the batch are persisted
OnNullPersistsUserTurns(f, i) ==
  [f EXCEPT !.failed = TRUE, !.stage = "users", !.q = UserTurns(f.batch, i)]

OnNull(f, i) == [f EXCEPT !.failed = TRUE, !.pc = "apology"]

\* lines 152-168 / 585-599: askOpenAI returns resp
FlushComplete(i, resp) ==
  LET f == flushes[i] IN
  /\ f.pc = "ask"
  /\ IF resp = Null
     THEN Proceed(i, OnNull(f, i), mem[f.phone])
     ELSE Proceed(i, [f EXCEPT !.resp = resp, !.stage = "users",
                               !.q = UserTurns(f.batch, i)], mem[f.phone])
  /\ UNCHANGED <<cfgVars, coalVars, redis, now, outbox, faults, appended>>

\* lines 310-315 / 638-643: the catch block of flushConversation logs the error
\* and returns; what it leaves of the pending batch b of the correspondent
BufferAfterThrowRequeues(b, f) == f.batch \o b

BufferAfterThrow(b, f) == b

\* the flush after its catch block: the call returns
CaughtAndRethrown(f) == [f EXCEPT !.pc = "thrown", !.threw = TRUE]

Caught(f) == [f EXCEPT !.pc = "done", !.threw = TRUE]

\* lines 151-152, 310-315 / 584-585, 638-643: buildPromptMessages or askOpenAI
\* throws; the flush is over, the error is logged and not rethrown
FlushThrow(i) ==
  LET f == flushes[i] IN
  /\ f.pc = "ask"
  /\ flushes' = [flushes EXCEPT ![i] = Caught(f)]
  /\ buffer' = [buffer EXCEPT ![f.phone] = BufferAfterThrow(@, f)]
  /\ UNCHANGED <<cfgVars, timer, arrived, burstFrom, redis, mem, now, outbox,
                 faults, appended>>

\* lines 156-158 / 589-590: the apology went through sendTextMessage
FlushApology(i, ok) ==
  LET f == flushes[i] IN
  /\ f.pc = "apology"
  /\ outbox' = Append(outbox, Sent("apology", f, i, NoTag, Apology, ok))
  /\ flushes' = [flushes EXCEPT ![i] = [f EXCEPT !.pc = "done"]]
  /\ UNCHANGED <<cfgVars, coalVars, redis, mem, now, faults, appended>>

\* addToHistory, lines 113-122 / 460-468: its read returns (or throws), the turn
\* is pushed and the capped array is handed to redis.setex
AppendRead(i, fail) ==
  LET f == flushes[i]
      h == GetHistory(f.phone, fail)
      t == Head(f.q)
  IN
  /\ f.pc = "aget"
  /\ mem' = [mem EXCEPT ![f.phone] = PushedMem(h, @, t)]
  /\ flushes' = [flushes EXCEPT ![i] =
        [f EXCEPT !.pc = "aset", !.rd = [alias |-> FALSE,
                                          val |-> ToWrite(h, mem[f.phone], t)]]]
  /\ faults' = Count(fail)
  /\ UNCHANGED <<cfgVars, coalVars, redis, now, outbox, appended>>

\* addToHistory, lines 122-142 / 468-487: redis.setex returns, or throws and the
\* turn goes to the in-memory array
AppendWrite(i, fail) ==
  LET f == flushes[i]
      g == [f EXCEPT !.q = Tail(@), !.rd = NoHist]
  IN
  /\ f.pc = "aset"
  /\ IF fail
     THEN /\ Proceed(i, g, MemoryAppend(mem[f.phone], Head(f.q)))
          /\ UNCHANGED redis
     ELSE /\ redis' = [redis EXCEPT ![RedisKey(f.phone)] = f.rd.val]
          /\ Proceed(i, g, mem[f.phone])
  /\ faults' = Count(fail)
  /\ UNCHANGED <<cfgVars, coalVars, now, outbox, appended>>

\* lines 244-246 / 561-563: the pause before an item, sentBefore items having
\* gone out in this flush
MEDIA_DELAY_MS == 500

MediaDelayNone(sentBefore) == 0

MediaDelay(sentBefore) == IF sentBefore > 0 THEN MEDIA_DELAY_MS ELSE 0

\* lines 243-264 / 553-573: sendMedia returned for the next item
FlushSendMedia(i, ok) ==
  LET f == flushes[i]
      req == f.send[f.k + 1]
      g == [f EXCEPT !.k = @ + 1]
  IN
  /\ f.pc = "media"
  /\ outbox' = Append(outbox,
        [Sent("media", f, i, req.id, [sep |-> "", parts |-> <<req.caption>>], ok)
           EXCEPT !.wait = MediaDelay(f.k)])
  /\ IF g.k < Len(g.send)
     THEN flushes' = [flushes EXCEPT ![i] = g] /\ UNCHANGED mem
     ELSE Proceed(i, g, mem[f.phone])
  /\ UNCHANGED <<cfgVars, coalVars, redis, now, faults, appended>>

\* lines 283-302 / 618-633: handleVoiceReply returned (sent: it delivered the
\* reply as a voice message) or threw
FlushVoice(i, sent) ==
  LET f == flushes[i] IN
  /\ f.pc = "voice"
  /\ outbox' = IF sent
               THEN Append(outbox, Sent("voice", f, i, NoTag, FinalResponse(f.resp), TRUE))
               ELSE outbox
  /\ flushes' = [flushes EXCEPT ![i] =
        [f EXCEPT !.pc = IF sent \/ ~HasProse(f.resp) THEN "done" ELSE "text"]]
  /\ UNCHANGED <<cfgVars, coalVars, redis, mem, now, faults, appended>>

\* lines 304-309 / 635-637: sendTextMessage returned
FlushText(i, ok) ==
  LET f == flushes[i] IN
  /\ f.pc = "text"
  /\ outbox' = Append(outbox, Sent("text", f, i, NoTag, FinalResponse(f.resp), ok))
  /\ flushes' = [flushes EXCEPT ![i] = [f EXCEPT !.pc = "done"]]
  /\ UNCHANGED <<cfgVars, coalVars, redis, mem, now, faults, appended>>

(***************************************************************************)
(* The customer profile: getOrCreateCustomerInfo of buildPrompt.ts (lines  *)
(* 114-136) with getCustomerInfo and saveCustomerInfo of historyManager.ts *)
(* (lines 39-82 / 396-433), run by a flush between its getHistory and its  *)
(* completion call.                                                        *)
(***************************************************************************)
\* line 150 / 583 as FlushRead, the flush going on to buildPromptMessages
FlushReadProfile(i, fail) ==
  LET f == flushes[i] IN
  /\ f.pc = "read"
  /\ flushes' = [flushes EXCEPT ![i] =
        [f EXCEPT !.pc = "cget", !.hist = GetHistory(f.phone, fail),
                  !.pre = Deref(GetHistory(f.phone, fail), mem[f.phone])]]
  /\ faults' = Count(fail)
  /\ UNCHANGED <<cfgVars, coalVars, redis, mem, now, outbox, appended>>

\* getCustomerInfo returning the stored profile although the read threw
GetCustomerInfoDespiteFailure(p, fail) == redisOn /\ customer[p] # <<>>

\* getCustomerInfo: the profile, or null when there is no store, no value, or
\* the read threw
GetCustomerInfo(p, fail) == redisOn /\ ~fail /\ customer[p] # <<>>

\* lines 119-135: getCustomerInfo returned; an existing profile is the customer
\* info; without one, on an empty history and with a sender name the flush goes
\* on to translate the name; otherwise the info is { name: null, gender: null }
CustomerGet(i, fail, named) ==
  LET f == flushes[i]
      p == f.phone
  IN
  /\ f.pc = "cget"
  /\ flushes' = [flushes EXCEPT ![i] =
        IF GetCustomerInfo(p, fail)
        THEN [f EXCEPT !.pc = "ask",
                       !.info = [from |-> "store",
                                 gender |-> customer[p][Len(customer[p])].gender]]
        ELSE IF Len(Deref(f.hist, mem[p])) = 0 /\ Len(f.batch) > 0 /\ named
             THEN [f EXCEPT !.pc = "cname"]
             ELSE [f EXCEPT !.pc = "ask", !.info = NoInfo]]
  /\ faults' = Count(fail)
  /\ UNCHANGED <<cfgVars, coalVars, redis, mem, now, outbox, appended>>

\* translateNameAndDetectGender, lines 189-219: the gender the completion
\* service answered, "unknown" when its call threw or answered nothing
Classified(ok) == [from |-> "new", gender |-> IF ok THEN "known" ELSE "unknown"]

\* line 129: translateNameAndDetectGender returned
CustomerTranslate(i, ok) ==
  LET f == flushes[i] IN
  /\ f.pc = "cname"
  /\ flushes' = [flushes EXCEPT ![i] =
        [f EXCEPT !.pc = "cset", !.info = Classified(ok)]]
  /\ UNCHANGED <<cfgVars, coalVars, redis, mem, now, outbox, faults, appended>>

\* saveCustomerInfo, line 130: redis.setex returned, or threw, or there is no
\* store; line 131 returns the result of the translation
CustomerSave(i, fail) ==
  LET f == flushes[i] IN
  /\ f.pc = "cset"
  /\ customer' = IF redisOn /\ ~fail
                 THEN [customer EXCEPT ![f.phone] =
                         Append(@, [by |-> i, gender |-> f.info.gender])]
                 ELSE customer
  /\ flushes' = [flushes EXCEPT ![i] = [f EXCEPT !.pc = "ask"]]
  /\ faults' = Count(fail)
  /\ UNCHANGED <<variant, redisOn, voiceOn, auxVars, coalVars, redis, mem, now,
                 outbox, appended>>

(***************************************************************************)
(* buildPromptMessages of conversation/buildPrompt.ts (lines 13-57), as a  *)
(* function of the log, the batch, the size of the media catalog, the      *)
(* number of snippets searchKnowledge returns and the customer info.       *)
(***************************************************************************)
\* lines.join(" ")
RECURSIVE JoinSpace(_)
JoinSpace(texts) ==
  IF texts = <<>> THEN <<>>
  ELSE IF Len(texts) = 1 THEN texts[1]
  ELSE texts[1] \o <<SP>> \o JoinSpace(Tail(texts))

RECURSIVE TextsOf(_)
TextsOf(batch) ==
  IF batch = <<>> THEN <<>> ELSE <<Head(batch).text>> \o TextsOf(Tail(batch))

\* extractUserQuery, lines 62-67
extractUserQuery(batch) == JoinSpace(SelectSeq(TextsOf(batch), LAMBDA t : t # <<>>))

\* buildRagContext, lines 72-79: 0 stands for null
buildRagContextAnyQuery(query, chunks) == chunks

buildRagContext(query, chunks) ==
  IF Trim(query) = <<>> THEN 0
  ELSE IF chunks = 0 THEN 0
  ELSE chunks

Message(role, kind, body) == [role |-> role, content |-> [kind |-> kind, body |-> body]]

\* lines 41-46
RECURSIVE HistoryMessages(_)
HistoryMessages(history) ==
  IF history = <<>> THEN <<>>
  ELSE <<Message(IF Head(history).role = "user" THEN "user" ELSE "assistant",
                 "turn", Head(history).content)>>
       \o HistoryMessages(Tail(history))

buildPromptMessages(history, batch, catalog, chunks, info) ==
  LET ragContext == buildRagContext(extractUserQuery(batch), chunks) IN
  <<Message("system", "systemPrompt", catalog)>>
  \o (IF ragContext # 0 THEN <<Message("system", "rag", ragContext)>> ELSE <<>>)
  \o HistoryMessages(history)
  \o <<Message("user", "batch", [batch |-> batch, info |-> info])>>

NoPrompt == [pc |-> "none", history |-> <<>>, batch |-> <<>>, catalog |-> 0,
             chunks |-> 0, info |-> "", messages |-> <<>>]

\* the call returns its messages
BuildPrompt ==
  /\ prompt.pc = "called"
  /\ prompt' = [prompt EXCEPT
        !.pc = "built",
        !.messages = buildPromptMessages(prompt.history, prompt.batch,
                                         prompt.catalog, prompt.chunks, prompt.info)]
  /\ UNCHANGED <<variant, redisOn, voiceOn, call, reply, customer, svcVars, coalVars, redis,
                 mem, now, flushes, outbox, faults, appended>>

(***************************************************************************)
(* MediaService.findBestMatch of services/mediaService.ts (lines 10-58):   *)
(* the query and the descriptions are texts of characters; the catalog is  *)
(* what fetchMediaFromCloudinary answered, an entry being its description, *)
(* and the match is the position of the entry in the catalog, 0 for null.  *)
(***************************************************************************)
\* String.prototype.toLowerCase on the letters of the model
LowerChar(t) ==
  IF t = Ch("A") THEN Ch("a") ELSE IF t = Ch("B") THEN Ch("b") ELSE t

toLowerCase(text) == [k \in DOMAIN text |-> LowerChar(text[k])]

\* .replace(/[-_.,]/g, " ")
IsPunctuation(t) == t \in {Ch("-"), Ch("_"), Ch("."), Ch(",")}

ReplacePunctuation(text) ==
  [k \in DOMAIN text |-> IF IsPunctuation(text[k]) THEN SP ELSE text[k]]

\* .split(/\s+/) of a trimmed text: "" gives [""], otherwise the runs of
\* characters that are not white space
RECURSIVE SplitSpaces(_)
SplitSpaces(text) ==
  IF \A k \in DOMAIN text : ~IsSpace(text[k]) THEN <<text>>
  ELSE LET k == CHOOSE j \in DOMAIN text :
                  IsSpace(text[j]) /\ \A m \in 1..(j - 1) : ~IsSpace(text[m])
       IN <<SubSeq(text, 1, k - 1)>> \o SplitSpaces(Trim(SubSeq(text, k, Len(text))))

\* .filter(t => t.length > 2)
RECURSIVE FilterLong(_)
FilterLong(tokens) ==
  IF tokens = <<>> THEN <<>>
  ELSE (IF Len(Head(tokens)) > 2 THEN <<Head(tokens)>> ELSE <<>>)
       \o FilterLong(Tail(tokens))

\* lines 19-24
QueryTokens(query) ==
  FilterLong(SplitSpaces(Trim(ReplacePunctuation(toLowerCase(query)))))

\* lines 30-32
Description(item) == ReplacePunctuation(toLowerCase(item))

\* String.prototype.includes
Includes(text, part) ==
  \E k \in 1..(Len(text) - Len(part) + 1) :
     SubSeq(text, k, k + Len(part) - 1) = part

\* lines 37-44: two for a token the description includes, one for a token whose
\* root, the token without its last character, is included
TokenScore(description, token) ==
  IF Includes(description, token) THEN 2
  ELSE IF Len(token) >= 3 /\ Includes(description, SubSeq(token, 1, Len(token) - 1))
       THEN 1
       ELSE 0

\* lines 34-45
RECURSIVE Score(_, _)
Score(description, tokens) ==
  IF tokens = <<>> THEN 0
  ELSE TokenScore(description, Head(tokens)) + Score(description, Tail(tokens))

\* line 47 with >= for >
BeatsOrEquals(score, maxScore) == score >= maxScore

\* line 47
Beats(score, maxScore) == score > maxScore

\* lines 26-51: the loop over the catalog from entry k on
RECURSIVE BestMatchLoop(_, _, _, _, _)
BestMatchLoop(catalog, k, tokens, bestMatch, maxScore) ==
  IF k > Len(catalog) THEN bestMatch
  ELSE LET score == Score(Description(catalog[k]), tokens) IN
       IF Beats(score, maxScore)
       THEN BestMatchLoop(catalog, k + 1, tokens, k, score)
       ELSE BestMatchLoop(catalog, k + 1, tokens, bestMatch, maxScore)

NoMatch == [pc |-> "none", query |-> <<>>, catalog |-> <<>>, result |-> 0]

\* lines 11-13: an empty query is answered null at once; otherwise the catalog
\* is fetched
MatchFetch ==
  /\ match.pc = "call"
  /\ match' = [match EXCEPT !.pc = IF match.query = <<>> THEN "done" ELSE "fetched"]
  /\ UNCHANGED <<pipeVars, schedulers, inbound, reminders>>

\* lines 15-57: the catalog arrived
MatchScore ==
  /\ match.pc = "fetched"
  /\ match' = [match EXCEPT
        !.pc = "done",
        !.result = IF Len(match.catalog) = 0 THEN 0
                   ELSE BestMatchLoop(match.catalog, 1, QueryTokens(match.query), 0, 0)]
  /\ UNCHANGED <<pipeVars, schedulers, inbound, reminders>>

(***************************************************************************)
(* services/summaryScheduler.ts for one phone.  Entries are numbered in    *)
(* creation order; entry k owns timer k.                                   *)
(*   entry    the entry schedulers.get(phone) returns, 0 when there is none*)
(*   entries  every entry object created so far                            *)
(*   pending  the timers that are set and have neither fired nor been      *)
(*            cleared                                                      *)
(*   running  the triggerSummary calls awaiting generateAndSendSummary,    *)
(*            each by the entry it holds                                   *)
(*   min      config.summaryMinMessages                                    *)
(***************************************************************************)
NoSchedulers ==
  [entry |-> 0, entries |-> <<>>, pending |-> {}, running |-> <<>>, min |-> 1]

\* lines 23-38 (config.summaryEnabled and the webhook URL being set)
resetSummaryTimer ==
  LET existing == schedulers.entry
      new == Len(schedulers.entries) + 1
      bumped == IF existing # 0
                THEN [schedulers.entries EXCEPT ![existing].messageCount = @ + 1]
                ELSE schedulers.entries
      entry == [messageCount |-> IF existing # 0 THEN bumped[existing].messageCount ELSE 1,
                lastSummaryMessageCount |->
                   IF existing # 0 THEN bumped[existing].lastSummaryMessageCount ELSE 0]
  IN
  /\ schedulers' = [schedulers EXCEPT
        !.entry = new,
        !.entries = Append(bumped, entry),
        !.pending = (@ \ {existing}) \cup {new}]
  /\ UNCHANGED <<pipeVars, match, inbound, reminders>>

\* line 63: schedulers.delete(phone)
Delete(held, current) == 0

\* lines 31-33, 42-53: timer k fires and triggerSummary runs up to its await
triggerSummary(k) ==
  LET held == schedulers.entry IN
  /\ k \in schedulers.pending
  /\ IF held = 0
     THEN schedulers' = [schedulers EXCEPT !.pending = @ \ {k}]
     ELSE IF schedulers.entries[held].messageCount
               - schedulers.entries[held].lastSummaryMessageCount < schedulers.min
     THEN schedulers' = [schedulers EXCEPT !.pending = @ \ {k}, !.entry = 0]
     ELSE schedulers' = [schedulers EXCEPT !.pending = @ \ {k},
                                           !.running = Append(@, held)]
  /\ UNCHANGED <<pipeVars, match, inbound, reminders>>

\* lines 53-63: generateAndSendSummary returned (ok) or threw for the call at
\* position j of running
SummaryDone(j, ok) ==
  LET held == schedulers.running[j] IN
  /\ j \in DOMAIN schedulers.running
  /\ schedulers' = [schedulers EXCEPT
        !.running = SubSeq(@, 1, j - 1) \o SubSeq(@, j + 1, Len(@)),
        !.entries = IF ok
                    THEN [@ EXCEPT ![held].lastSummaryMessageCount =
                                      schedulers.entries[held].messageCount]
                    ELSE @,
        !.entry = Delete(held, @)]
  /\ UNCHANGED <<pipeVars, match, inbound, reminders>>

\* lines 66-72
clearSummaryTimer ==
  /\ schedulers.entry # 0
  /\ schedulers' = [schedulers EXCEPT !.pending = @ \ {schedulers.entry}, !.entry = 0]
  /\ UNCHANGED <<pipeVars, match, inbound, reminders>>

(***************************************************************************)
(* processMessage of the webhook handler (part_003, lines 70-177) with     *)
(* optout/optOutManager.ts, for one phone.                                 *)
(*   store     getRedis() # null and config.redisEnabled                   *)
(*   flag      the key customer:{phone}.optOut holds unsubscribed: true    *)
(*   msgs      every processMessage call, in arrival order                 *)
(*   buffered  the calls that reached addMessageToBuffer, in call order    *)
(*   texts     the sendTextMessage calls of processMessage                 *)
(*   faults    store calls that threw                                      *)
(***************************************************************************)
NoInbound ==
  [store |-> TRUE, flag |-> FALSE, msgs |-> <<>>, buffered |-> <<>>,
   texts |-> <<>>, faults |-> 0]

Confidences == {"high", "medium", "low"}

NoDetection == [isOptOut |-> FALSE, confidence |-> "none"]

\* line 85
IsOptOut(detection) == detection.isOptOut /\ detection.confidence # "low"

\* line 82: with a text the message goes to detectOptOut, else to the media
\* handling of lines 96-176
AfterClear(m) == IF m.hasText THEN "detect" ELSE "media"

InboundFaults(fail) == IF fail THEN inbound.faults + 1 ELSE inbound.faults

\* lines 70-75: a message arrives and isOptedOut is called
ProcessMessage(hasText) ==
  /\ inbound' = [inbound EXCEPT !.msgs =
        Append(@, [pc |-> "isOptedOut", hasText |-> hasText,
                   detection |-> NoDetection])]
  /\ UNCHANGED <<pipeVars, match, schedulers, reminders>>

\* isOptedOut (lines 14-33) returned: false without store and when the read
\* threw; lines 77-80
IsOptedOutReturns(k, fail) ==
  LET m == inbound.msgs[k]
      customerOptedOut == inbound.store /\ ~fail /\ inbound.flag
  IN
  /\ m.pc = "isOptedOut"
  /\ inbound' = [inbound EXCEPT
        !.msgs[k].pc = IF customerOptedOut THEN "clear" ELSE AfterClear(m),
        !.faults = InboundFaults(fail)]
  /\ UNCHANGED <<pipeVars, match, schedulers, reminders>>

\* clearOptOut (lines 61-78) returned
ClearOptOutReturns(k, fail) ==
  LET m == inbound.msgs[k] IN
  /\ m.pc = "clear"
  /\ inbound' = [inbound EXCEPT
        !.flag = IF inbound.store /\ ~fail THEN FALSE ELSE @,
        !.msgs[k].pc = AfterClear(m),
        !.faults = InboundFaults(fail)]
  /\ UNCHANGED <<pipeVars, match, schedulers, reminders>>

\* lines 83-86: detectOptOut returned
DetectOptOutReturns(k, detection) ==
  LET m == inbound.msgs[k] IN
  /\ m.pc = "detect"
  /\ inbound' = [inbound EXCEPT
        !.msgs[k].detection = detection,
        !.msgs[k].pc = IF IsOptOut(detection) THEN "set" ELSE "media"]
  /\ UNCHANGED <<pipeVars, match, schedulers, reminders>>

\* setOptOut (lines 35-59) returned; line 87
SetOptOutReturns(k, fail) ==
  LET m == inbound.msgs[k] IN
  /\ m.pc = "set"
  /\ inbound' = [inbound EXCEPT
        !.flag = IF inbound.store /\ ~fail THEN TRUE ELSE @,
        !.msgs[k].pc = "confirm",
        !.faults = InboundFaults(fail)]
  /\ UNCHANGED <<pipeVars, match, schedulers, reminders>>

\* lines 87-92: the confirmation went through sendTextMessage; return
ConfirmOptOut(k, ok) ==
  LET m == inbound.msgs[k] IN
  /\ m.pc = "confirm"
  /\ inbound' = [inbound EXCEPT
        !.texts = Append(@, [by |-> k, kind |-> "optout", ok |-> ok]),
        !.msgs[k].pc = "done"]
  /\ UNCHANGED <<pipeVars, match, schedulers, reminders>>

\* lines 96-176: the audio or the image could not be read, an excuse is sent
\* and the call returns; otherwise addMessageToBuffer
HandOver(k, readable) ==
  LET m == inbound.msgs[k] IN
  /\ m.pc = "media"
  /\ inbound' = [inbound EXCEPT
        !.texts = IF readable THEN @
                  ELSE Append(@, [by |-> k, kind |-> "excuse", ok |-> TRUE]),
        !.buffered = IF readable THEN Append(@, k) ELSE @,
        !.msgs[k].pc = "done"]
  /\ UNCHANGED <<pipeVars, match, schedulers, reminders>>

(***************************************************************************)
(* The meeting reminders: checkMeetings and processMeeting of              *)
(* calendar/reminders (lines 140-250) on one meeting key that saveMeeting  *)
(* (part_006, lines 15-45) wrote.                                          *)
(*   flags   the flags of the meeting under the key meeting:{phone}        *)
(*   runs    every checkMeetings call, in tick order; a run holds the      *)
(*           meeting object it parsed (its flags, m) and whether now is in *)
(*           the day-of window and in the before-meeting window            *)
(*   sent    the sendTextMessage calls of processMeeting, each with the    *)
(*           flag of its kind in the meeting object of its run             *)
(*   faults  store calls that threw                                        *)
(***************************************************************************)
\* part_006 lines 27-33: the flags saveMeeting stores
NoFlags == [sentDayReminder |-> FALSE, sentBeforeReminder |-> FALSE]

NoReminders == [flags |-> NoFlags, runs |-> <<>>, sent |-> <<>>, faults |-> 0]

\* lines 200-202: the meeting is written back when a flag was set
AfterBefore(run) == IF run.updated THEN "set" ELSE "done"

\* lines 180-184
AfterDay(run) ==
  IF run.inBefore /\ ~run.m.sentBeforeReminder THEN "sendBefore" ELSE AfterBefore(run)

\* lines 159-163
AfterOptOutCheck(run) ==
  IF run.inDay /\ ~run.m.sentDayReminder THEN "sendDay" ELSE AfterDay(run)

ReminderFaults(fail) == IF fail THEN reminders.faults + 1 ELSE reminders.faults

\* lines 244-249, 205-220: a tick of the scheduler; redis.keys returned the key
checkMeetings ==
  /\ reminders' = [reminders EXCEPT !.runs =
        Append(@, [pc |-> "get", m |-> NoFlags, inDay |-> FALSE, inBefore |-> FALSE,
                   updated |-> FALSE])]
  /\ UNCHANGED <<pipeVars, match, schedulers, inbound>>

\* lines 220-230: redis.get returned the meeting, or threw
GetMeeting(r, fail) ==
  LET run == reminders.runs[r] IN
  /\ run.pc = "get"
  /\ reminders' = [reminders EXCEPT
        !.runs[r] = IF fail THEN [run EXCEPT !.pc = "done"]
                    ELSE [run EXCEPT !.pc = "optout", !.m = reminders.flags],
        !.faults = ReminderFaults(fail)]
  /\ UNCHANGED <<pipeVars, match, schedulers, inbound>>

\* lines 144-163: isOptedOut returned; now is read once and both windows are
\* computed from it
ProcessMeeting(r, optedOut, inDay, inBefore) ==
  LET run == reminders.runs[r]
      timed == [run EXCEPT !.inDay = inDay, !.inBefore = inBefore]
  IN
  /\ run.pc = "optout"
  /\ reminders' = [reminders EXCEPT
        !.runs[r] = IF optedOut THEN [run EXCEPT !.pc = "done"]
                    ELSE [timed EXCEPT !.pc = AfterOptOutCheck(timed)]]
  /\ UNCHANGED <<pipeVars, match, schedulers, inbound>>

\* lines 167-177, 188-198: if (sent) the flag is set
MarkedIfSent(flag, sent) == flag \/ sent

\* lines 164-178: the day-of reminder went through sendTextMessage
SendDayReminder(r, sent) ==
  LET run == reminders.runs[r]
      after == [run EXCEPT
                  !.m.sentDayReminder = MarkedIfSent(@, sent),
                  !.updated = @ \/ MarkedIfSent(run.m.sentDayReminder, sent)]
  IN
  /\ run.pc = "sendDay"
  /\ reminders' = [reminders EXCEPT
        !.sent = Append(@, [kind |-> "day", ok |-> sent, by |-> r,
                            flag |-> run.m.sentDayReminder]),
        !.runs[r] = [after EXCEPT !.pc = AfterDay(after)]]
  /\ UNCHANGED <<pipeVars, match, schedulers, inbound>>

\* lines 185-199: the before-meeting reminder went through sendTextMessage
SendBeforeReminder(r, sent) ==
  LET run == reminders.runs[r]
      after == [run EXCEPT
                  !.m.sentBeforeReminder = MarkedIfSent(@, sent),
                  !.updated = @ \/ MarkedIfSent(run.m.sentBeforeReminder, sent)]
  IN
  /\ run.pc = "sendBefore"
  /\ reminders' = [reminders EXCEPT
        !.sent = Append(@, [kind |-> "before", ok |-> sent, by |-> r,
                            flag |-> run.m.sentBeforeReminder]),
        !.runs[r] = [after EXCEPT !.pc = AfterBefore(after)]]
  /\ UNCHANGED <<pipeVars, match, schedulers, inbound>>

\* lines 200-202, 225-230: redis.set wrote the meeting object of the run over
\* the key, or threw
SetMeeting(r, fail) ==
  LET run == reminders.runs[r] IN
  /\ run.pc = "set"
  /\ reminders' = [reminders EXCEPT
        !.flags = IF fail THEN @ ELSE run.m,
        !.runs[r].pc = "done",
        !.faults = ReminderFaults(fail)]
  /\ UNCHANGED <<pipeVars, match, schedulers, inbound>>

(***************************************************************************)
(* The send operations of wa/sendMessage.ts: sendTextMessage (lines 20-67  *)
(* and 283-347), sendImageMessage (69-123), sendVoiceMessage (125-199) and *)
(* sendMedia (201-265).  A call is a chain of attempts; an attempt ends    *)
(* with one outcome:                                                       *)
(*   "ok"      the POST answered with response.data.success                *)
(*   "refused" the POST answered without success                           *)
(*   "429"     the POST failed with an axios error of status 429           *)
(*   "http"    the POST failed with another axios error                    *)
(*   "error"   anything else was thrown (for a voice message, the upload)  *)
(***************************************************************************)
MAX_RETRIES == 3
RETRY_DELAY_MS == 5000

SendKinds == {"text", "image", "voice", "media"}
Outcomes == {"ok", "refused", "429", "http", "error"}

NoCall ==
  [kind |-> "none", pc |-> "idle", retryCount |-> 0, outcomes |-> <<>>,
   waits |-> <<>>, result |-> FALSE]

\* the condition of the retry branch of the catch block
MayRetryAnyFailure(outcome, retryCount) ==
  outcome \in {"429", "http", "error"} /\ retryCount < MAX_RETRIES

MayRetry(outcome, retryCount) == outcome = "429" /\ retryCount < MAX_RETRIES

\* const delay = RETRY_DELAY_MS * (retryCount + 1)
BackoffExponential(retryCount) == RETRY_DELAY_MS * (2 ^ retryCount)

Backoff(retryCount) == RETRY_DELAY_MS * (retryCount + 1)

\* a caller calls send<kind>(...) with retryCount = 0
SendCall(kind) ==
  /\ call.pc \in {"idle", "returned"}
  /\ call' = [NoCall EXCEPT !.kind = kind, !.pc = "post"]
  /\ outbox' = IF call.pc = "returned" THEN Append(outbox, call) ELSE outbox
  /\ UNCHANGED <<variant, redisOn, voiceOn, reply, prompt, customer, svcVars, coalVars, redis, mem, now, flushes,
                 faults, appended>>

\* the try block ran: the attempt ended with outcome
SendAttempt(outcome) ==
  /\ call.pc = "post"
  /\ call' =
       LET c == [call EXCEPT !.outcomes = Append(@, outcome)] IN
       IF outcome = "ok" THEN [c EXCEPT !.pc = "returned", !.result = TRUE]
       ELSE IF outcome = "refused" THEN [c EXCEPT !.pc = "returned", !.result = FALSE]
       ELSE IF MayRetry(outcome, call.retryCount)
       THEN [c EXCEPT !.pc = "wait", !.waits = Append(@, Backoff(call.retryCount))]
       ELSE [c EXCEPT !.pc = "returned", !.result = FALSE]
  /\ UNCHANGED <<variant, redisOn, voiceOn, reply, prompt, customer, svcVars, coalVars, redis, mem, now, flushes,
                 outbox, faults, appended>>

\* the delay elapsed: the function calls itself with retryCount + 1
SendRetry ==
  /\ call.pc = "wait"
  /\ call' = [call EXCEPT !.pc = "post", !.retryCount = @ + 1]
  /\ UNCHANGED <<variant, redisOn, voiceOn, reply, prompt, customer, svcVars, coalVars, redis, mem, now, flushes,
                 outbox, faults, appended>>

\* the calls made so far
SendCalls == Len(outbox) + (IF call.pc = "idle" THEN 0 ELSE 1)

InitSend ==
  /\ variant = 1
  /\ redisOn = FALSE
  /\ voiceOn = FALSE
  /\ redis = [p \in Phones |-> <<>>]
  /\ mem = [p \in Phones |-> <<>>]
  /\ buffer = [p \in Phones |-> <<>>]
  /\ timer = [p \in Phones |-> 0]
  /\ arrived = [p \in Phones |-> <<>>]
  /\ burstFrom = [p \in Phones |-> 0]
  /\ now = 0
  /\ flushes = <<>>
  /\ outbox = <<>>
  /\ faults = 0
  /\ appended = [p \in Phones |-> <<>>]
  /\ call = NoCall
  /\ reply = NoReply
  /\ prompt = NoPrompt
  /\ customer = NoCustomer
  /\ match = NoMatch
  /\ schedulers = NoSchedulers
  /\ inbound = NoInbound
  /\ reminders = NoReminders

NextSend ==
  \/ \E kind \in SendKinds : SendCalls < MaxSends /\ SendCall(kind)
  \/ \E outcome \in Outcomes : SendAttempt(outcome)
  \/ SendRetry

SpecSend == InitSend /\ [][NextSend]_vars

(***************************************************************************)
(* The text specification: a response is parsed and its text is made       *)
(***************************************************************************)
\* the lines a response is made of: empty, prose, blank, prose with a leading
\* blank, prose with two blanks inside, a directive, prose followed by a
\* directive, a marker of revision 2
TextLines ==
  { <<>>, <<Ch("a")>>, <<Ch("b")>>, <<SP>>, <<SP, Ch("a")>>,
    <<Ch("a"), SP, SP, Ch("b")>>, <<MediaTag(1)>>, <<MediaTag(2)>>,
    <<Ch("a"), MediaTag(1)>>, <<SentMarker(1)>> }

RECURSIVE LinesUpTo(_)
LinesUpTo(n) ==
  IF n = 0 THEN {<<>>}
  ELSE LET S == LinesUpTo(n - 1) IN
       S \cup {Append(q, l) : q \in {r \in S : Len(r) = n - 1}, l \in TextLines}

TextResponses == {Join(q) : q \in LinesUpTo(MaxTextLines) \ {<<>>}}

InitText ==
  /\ variant \in {1, 2}
  /\ redisOn = FALSE
  /\ voiceOn = FALSE
  /\ redis = [p \in Phones |-> <<>>]
  /\ mem = [p \in Phones |-> <<>>]
  /\ buffer = [p \in Phones |-> <<>>]
  /\ timer = [p \in Phones |-> 0]
  /\ arrived = [p \in Phones |-> <<>>]
  /\ burstFrom = [p \in Phones |-> 0]
  /\ now = 0
  /\ flushes = <<>>
  /\ outbox = <<>>
  /\ faults = 0
  /\ appended = [p \in Phones |-> <<>>]
  /\ call = NoCall
  /\ prompt = NoPrompt
  /\ customer = NoCustomer
  /\ match = NoMatch
  /\ schedulers = NoSchedulers
  /\ inbound = NoInbound
  /\ reminders = NoReminders
  /\ reply \in {[NoReply EXCEPT !.pc = "response", !.response = r] :
                  r \in TextResponses}

NextText ==
  \/ ParseResponse
  \/ DispatchText

SpecText == InitText /\ [][NextText]_vars

(***************************************************************************)
(* The prompt specification: buildPromptMessages is called once            *)
(***************************************************************************)
PromptTurns ==
  {[role |-> r, content |-> c] : r \in {"user", "assistant"}, c \in {"x", "y"}}

\* the text of a batch message: none, a blank, a letter
PromptBatchMessages == {[text |-> t] : t \in {<<>>, <<SP>>, <<Ch("q")>>}}

InitPrompt ==
  /\ variant = 1
  /\ redisOn = FALSE
  /\ voiceOn = FALSE
  /\ redis = [p \in Phones |-> <<>>]
  /\ mem = [p \in Phones |-> <<>>]
  /\ buffer = [p \in Phones |-> <<>>]
  /\ timer = [p \in Phones |-> 0]
  /\ arrived = [p \in Phones |-> <<>>]
  /\ burstFrom = [p \in Phones |-> 0]
  /\ now = 0
  /\ flushes = <<>>
  /\ outbox = <<>>
  /\ faults = 0
  /\ appended = [p \in Phones |-> <<>>]
  /\ call = NoCall
  /\ reply = NoReply
  /\ customer = NoCustomer
  /\ match = NoMatch
  /\ schedulers = NoSchedulers
  /\ inbound = NoInbound
  /\ reminders = NoReminders
  /\ \E h \in SeqsUpTo(PromptTurns, MaxPromptHistory),
        b \in SeqsUpTo(PromptBatchMessages, MaxPromptBatch) \ {<<>>},
        catalog \in 0..CatalogSize, chunks \in 0..MaxChunks,
        info \in {"", "name"} :
        prompt = [NoPrompt EXCEPT !.pc = "called", !.history = h, !.batch = b,
                                  !.catalog = catalog, !.chunks = chunks,
                                  !.info = info]

NextPrompt == BuildPrompt

SpecPrompt == InitPrompt /\ [][NextPrompt]_vars

(***************************************************************************)
(* The media specification: one findBestMatch call on a query of up to     *)
(* MaxQueryWords words and a catalog of up to MaxCatalog entries           *)
(***************************************************************************)
Word(chars) == [k \in DOMAIN chars |-> Ch(chars[k])]

QueryWords == {Word(<<"a", "a", "b">>), Word(<<"A", "a", "c">>), Word(<<"a", "b">>)}
Separators == {<<SP>>, <<Ch("-")>>, <<SP, SP>>}

RECURSIVE QueriesOf(_)
QueriesOf(n) ==
  IF n = 0 THEN {<<>>}
  ELSE IF n = 1 THEN QueryWords \cup {<<SP>>}
  ELSE {q \o sep \o w : q \in QueriesOf(n - 1), sep \in Separators, w \in QueryWords}

Queries == UNION {QueriesOf(n) : n \in 0..MaxQueryWords}

Descriptions ==
  {Word(<<"a", "a", "b">>), Word(<<"A", "A">>), Word(<<"a", "a", "c", "-", "a", "a", "b">>),
   Word(<<"b", "_", "a", "a">>), Word(<<"c">>)}

\* the pipeline at rest, in the specifications of the services beside it
PipelineIdle ==
  /\ variant = 2
  /\ redisOn = TRUE
  /\ voiceOn = FALSE
  /\ redis = [p \in Phones |-> <<>>]
  /\ mem = [p \in Phones |-> <<>>]
  /\ buffer = [p \in Phones |-> <<>>]
  /\ timer = [p \in Phones |-> 0]
  /\ arrived = [p \in Phones |-> <<>>]
  /\ burstFrom = [p \in Phones |-> 0]
  /\ now = 0
  /\ flushes = <<>>
  /\ outbox = <<>>
  /\ faults = 0
  /\ appended = [p \in Phones |-> <<>>]
  /\ call = NoCall
  /\ reply = NoReply
  /\ prompt = NoPrompt
  /\ customer = NoCustomer

InitMedia ==
  /\ PipelineIdle
  /\ match \in [pc : {"call"}, query : Queries,
                catalog : SeqsUpTo(Descriptions, MaxCatalog), result : {0}]
  /\ schedulers = NoSchedulers
  /\ inbound = NoInbound
  /\ reminders = NoReminders

NextMedia == MatchFetch \/ MatchScore

SpecMedia == InitMedia /\ [][NextMedia]_vars

(***************************************************************************)
(* The summary specification: up to MaxResets resetSummaryTimer calls (one *)
(* per flush that has an answer), the timers they set, the summaries, and  *)
(* clearSummaryTimer                                                       *)
(***************************************************************************)
InitSummary ==
  /\ PipelineIdle
  /\ match = NoMatch
  /\ schedulers \in {[NoSchedulers EXCEPT !.min = m] : m \in 1..MaxSummaryMin}
  /\ inbound = NoInbound
  /\ reminders = NoReminders

NextSummary ==
  \/ Len(schedulers.entries) < MaxResets /\ resetSummaryTimer
  \/ \E k \in schedulers.pending : triggerSummary(k)
  \/ \E j \in DOMAIN schedulers.running, ok \in BOOLEAN : SummaryDone(j, ok)
  \/ clearSummaryTimer

SpecSummary == InitSummary /\ [][NextSummary]_vars

(***************************************************************************)
(* The opt-out specification: up to MaxInbound messages of one phone, their*)
(* processMessage calls interleaved, with and without store                *)
(***************************************************************************)
InitOptOut ==
  /\ PipelineIdle
  /\ match = NoMatch
  /\ schedulers = NoSchedulers
  /\ inbound \in {[NoInbound EXCEPT !.store = b] : b \in BOOLEAN}
  /\ reminders = NoReminders

InboundMayFail == {FALSE} \cup {f \in {TRUE} : inbound.store /\ inbound.faults < MaxInboundFaults}

Detections ==
  {NoDetection} \cup [isOptOut : BOOLEAN, confidence : Confidences]

NextOptOut ==
  \/ \E hasText \in BOOLEAN : Len(inbound.msgs) < MaxInbound /\ ProcessMessage(hasText)
  \/ \E k \in DOMAIN inbound.msgs, fail \in InboundMayFail : IsOptedOutReturns(k, fail)
  \/ \E k \in DOMAIN inbound.msgs, fail \in InboundMayFail : ClearOptOutReturns(k, fail)
  \/ \E k \in DOMAIN inbound.msgs, d \in Detections \ {NoDetection} :
        DetectOptOutReturns(k, d)
  \/ \E k \in DOMAIN inbound.msgs, fail \in InboundMayFail : SetOptOutReturns(k, fail)
  \/ \E k \in DOMAIN inbound.msgs, ok \in BOOLEAN : ConfirmOptOut(k, ok)
  \/ \E k \in DOMAIN inbound.msgs, readable \in BOOLEAN : HandOver(k, readable)

SpecOptOut == InitOptOut /\ [][NextOptOut]_vars

(***************************************************************************)
(* The reminder specification: MaxTicks ticks of the scheduler on one      *)
(* stored meeting, a tick starting whether or not the run of the tick      *)
(* before is over (setInterval with void checkMeetings())                  *)
(***************************************************************************)
InitReminders ==
  /\ PipelineIdle
  /\ match = NoMatch
  /\ schedulers = NoSchedulers
  /\ inbound = NoInbound
  /\ reminders = NoReminders

ReminderMayFail == {FALSE} \cup {f \in {TRUE} : reminders.faults < MaxReminderFaults}

NextReminders ==
  \/ Len(reminders.runs) < MaxTicks /\ checkMeetings
  \/ \E r \in DOMAIN reminders.runs, fail \in ReminderMayFail : GetMeeting(r, fail)
  \/ \E r \in DOMAIN reminders.runs, optedOut, inDay, inBefore \in BOOLEAN :
        ProcessMeeting(r, optedOut, inDay, inBefore)
  \/ \E r \in DOMAIN reminders.runs, sent \in BOOLEAN : SendDayReminder(r, sent)
  \/ \E r \in DOMAIN reminders.runs, sent \in BOOLEAN : SendBeforeReminder(r, sent)
  \/ \E r \in DOMAIN reminders.runs, fail \in ReminderMayFail : SetMeeting(r, fail)

SpecReminders == InitReminders /\ [][NextReminders]_vars

(***************************************************************************)
(* The pipeline: coalescer, store and flushes of every correspondent       *)
(***************************************************************************)
NoLog == [p \in Phones |-> <<>>]

Responses == {Null, <<Prose("a")>>, <<Prose("a"), Directive(1)>>}

Init ==
  /\ variant \in {1, 2}
  /\ redisOn \in BOOLEAN
  /\ voiceOn \in BOOLEAN
  /\ redis = NoLog
  /\ mem = NoLog
  /\ buffer = NoLog
  /\ timer = [p \in Phones |-> 0]
  /\ arrived = NoLog
  /\ burstFrom = [p \in Phones |-> 0]
  /\ now = 0
  /\ flushes = <<>>
  /\ outbox = <<>>
  /\ faults = 0
  /\ appended = NoLog
  /\ call = NoCall
  /\ reply = NoReply
  /\ prompt = NoPrompt
  /\ customer = NoCustomer
  /\ match = NoMatch
  /\ schedulers = NoSchedulers
  /\ inbound = NoInbound
  /\ reminders = NoReminders

MayFail == {FALSE} \cup {b \in {TRUE} : redisOn /\ faults < MaxFaults}

RECURSIVE SumLen(_, _)
SumLen(f, S) ==
  IF S = {} THEN 0
  ELSE LET x == CHOOSE y \in S : TRUE IN Len(f[x]) + SumLen(f, S \ {x})

TotalArrived == SumLen(arrived, DOMAIN arrived)

Next ==
  \/ \E p \in Phones : TotalArrived < MaxMsgs /\ OnIncoming(p)
  \/ \E p \in Phones : TimerExpire(p)
  \/ now < MaxTime /\ Tick
  \/ \E i \in DOMAIN flushes, fail \in MayFail : FlushRead(i, fail)
  \/ \E i \in DOMAIN flushes, resp \in Responses : FlushComplete(i, resp)
  \/ \E i \in DOMAIN flushes : FlushThrow(i)
  \/ \E i \in DOMAIN flushes, ok \in BOOLEAN : FlushApology(i, ok)
  \/ \E i \in DOMAIN flushes, fail \in MayFail : AppendRead(i, fail)
  \/ \E i \in DOMAIN flushes, fail \in MayFail : AppendWrite(i, fail)
  \/ \E i \in DOMAIN flushes, ok \in BOOLEAN : FlushSendMedia(i, ok)
  \/ \E i \in DOMAIN flushes, sent \in BOOLEAN : FlushVoice(i, sent)
  \/ \E i \in DOMAIN flushes, ok \in BOOLEAN : FlushText(i, ok)

Spec == Init /\ [][Next]_vars

(***************************************************************************)
(* One flush of one inbound turn, its completion response drawn from every *)
(* sequence of at most MaxLines lines.                                     *)
(***************************************************************************)
ReplyLines ==
  {Prose("a"), Directive(1), Directive(2), Directive(3), MarkerLine(1), BlankLine}

ReplyResponses == SeqsUpTo(ReplyLines, MaxLines)

NextReply ==
  \/ \E p \in Phones : TotalArrived < 1 /\ OnIncoming(p)
  \/ \E p \in Phones : TimerExpire(p)
  \/ now < BatchWindow /\ Tick
  \/ \E i \in DOMAIN flushes, fail \in MayFail : FlushRead(i, fail)
  \/ \E i \in DOMAIN flushes, resp \in ReplyResponses : FlushComplete(i, resp)
  \/ \E i \in DOMAIN flushes : FlushThrow(i)
  \/ \E i \in DOMAIN flushes, ok \in BOOLEAN : FlushApology(i, ok)
  \/ \E i \in DOMAIN flushes, fail \in MayFail : AppendRead(i, fail)
  \/ \E i \in DOMAIN flushes, fail \in MayFail : AppendWrite(i, fail)
  \/ \E i \in DOMAIN flushes, ok \in BOOLEAN : FlushSendMedia(i, ok)
  \/ \E i \in DOMAIN flushes, sent \in BOOLEAN : FlushVoice(i, sent)
  \/ \E i \in DOMAIN flushes, ok \in BOOLEAN : FlushText(i, ok)

SpecReply == Init /\ [][NextReply]_vars

\* a step of flush i: one of its awaited calls settles
FlushStep(i) ==
  /\ i \in DOMAIN flushes
  /\ \/ \E fail \in MayFail : FlushRead(i, fail)
     \/ \E resp \in Responses : FlushComplete(i, resp)
     \/ FlushThrow(i)
     \/ \E ok \in BOOLEAN : FlushApology(i, ok)
     \/ \E fail \in MayFail : AppendRead(i, fail)
     \/ \E fail \in MayFail : AppendWrite(i, fail)
     \/ \E ok \in BOOLEAN : FlushSendMedia(i, ok)
     \/ \E sent \in BOOLEAN : FlushVoice(i, sent)
     \/ \E ok \in BOOLEAN : FlushText(i, ok)

\* one burst and its flush
NextFlush ==
  \/ \E p \in Phones : TotalArrived < 1 /\ OnIncoming(p)
  \/ \E p \in Phones : TimerExpire(p)
  \/ now < BatchWindow /\ Tick
  \/ \E i \in DOMAIN flushes : FlushStep(i)

\* every awaited call of a flush settles in the end (it returns or throws)
SpecFlushLive == Init /\ [][NextFlush]_vars /\ WF_vars(FlushStep(1))

(***************************************************************************)
(* The profile specification: the pipeline with the profile steps of       *)
(* buildPromptMessages, text replies only                                  *)
(***************************************************************************)
ProfileResponses == {Null, <<Prose("a")>>}

InitProfile ==
  /\ variant \in {1, 2}
  /\ redisOn \in BOOLEAN
  /\ voiceOn = FALSE
  /\ redis = NoLog
  /\ mem = NoLog
  /\ buffer = NoLog
  /\ timer = [p \in Phones |-> 0]
  /\ arrived = NoLog
  /\ burstFrom = [p \in Phones |-> 0]
  /\ now = 0
  /\ flushes = <<>>
  /\ outbox = <<>>
  /\ faults = 0
  /\ appended = NoLog
  /\ call = NoCall
  /\ reply = NoReply
  /\ prompt = NoPrompt
  /\ customer = NoCustomer
  /\ match = NoMatch
  /\ schedulers = NoSchedulers
  /\ inbound = NoInbound
  /\ reminders = NoReminders

NextProfile ==
  \/ \E p \in Phones : TotalArrived < MaxMsgs /\ OnIncoming(p)
  \/ \E p \in Phones : TimerExpire(p)
  \/ now < MaxTime /\ Tick
  \/ \E i \in DOMAIN flushes, fail \in MayFail : FlushReadProfile(i, fail)
  \/ \E i \in DOMAIN flushes, fail \in MayFail, named \in BOOLEAN :
        CustomerGet(i, fail, named)
  \/ \E i \in DOMAIN flushes, ok \in BOOLEAN : CustomerTranslate(i, ok)
  \/ \E i \in DOMAIN flushes, fail \in MayFail : CustomerSave(i, fail)
  \/ \E i \in DOMAIN flushes, resp \in ProfileResponses : FlushComplete(i, resp)
  \/ \E i \in DOMAIN flushes : FlushThrow(i)
  \/ \E i \in DOMAIN flushes, ok \in BOOLEAN : FlushApology(i, ok)
  \/ \E i \in DOMAIN flushes, fail \in MayFail : AppendRead(i, fail)
  \/ \E i \in DOMAIN flushes, fail \in MayFail : AppendWrite(i, fail)
  \/ \E i \in DOMAIN flushes, ok \in BOOLEAN : FlushText(i, ok)

SpecProfile == InitProfile /\ [][NextProfile]_vars

(***************************************************************************)
(* Two correspondents with MaxPairMsgs inbound turns each: their flushes   *)
(* interleave at every awaited call.  Voice replies are off.               *)
(***************************************************************************)
PairPhones == {1, 2}

PairNoLog == [p \in PairPhones |-> <<>>]

InitPair ==
  /\ variant \in {1, 2}
  /\ redisOn \in BOOLEAN
  /\ voiceOn = FALSE
  /\ redis = PairNoLog
  /\ mem = PairNoLog
  /\ buffer = PairNoLog
  /\ timer = [p \in PairPhones |-> 0]
  /\ arrived = PairNoLog
  /\ burstFrom = [p \in PairPhones |-> 0]
  /\ now = 0
  /\ flushes = <<>>
  /\ outbox = <<>>
  /\ faults = 0
  /\ appended = PairNoLog
  /\ call = NoCall
  /\ reply = NoReply
  /\ prompt = NoPrompt
  /\ customer = NoCustomer
  /\ match = NoMatch
  /\ schedulers = NoSchedulers
  /\ inbound = NoInbound
  /\ reminders = NoReminders

NextPair ==
  \/ \E p \in PairPhones : Len(arrived[p]) < MaxPairMsgs /\ OnIncoming(p)
  \/ \E p \in PairPhones : TimerExpire(p)
  \/ now < MaxTime /\ Tick
  \/ \E i \in DOMAIN flushes, fail \in MayFail : FlushRead(i, fail)
  \/ \E i \in DOMAIN flushes, resp \in Responses : FlushComplete(i, resp)
  \/ \E i \in DOMAIN flushes : FlushThrow(i)
  \/ \E i \in DOMAIN flushes, ok \in BOOLEAN : FlushApology(i, ok)
  \/ \E i \in DOMAIN flushes, fail \in MayFail : AppendRead(i, fail)
  \/ \E i \in DOMAIN flushes, fail \in MayFail : AppendWrite(i, fail)
  \/ \E i \in DOMAIN flushes, ok \in BOOLEAN : FlushSendMedia(i, ok)
  \/ \E i \in DOMAIN flushes, ok \in BOOLEAN : FlushText(i, ok)

SpecPair == InitPair /\ [][NextPair]_vars

(***************************************************************************)
(* The store alone: addToHistory and clearHistory called one after the     *)
(* other, each store call inside them succeeding or throwing.              *)
(***************************************************************************)
StorePhones == {1, 2}

StoreTurn(p) ==
  [role |-> "user", content |-> Content(<<>>, <<"u">>),
   timestamp |-> Len(appended[p]) + 1, by |-> 0]

\* addToHistory(p, t), lines 107-143 / 455-488, as one call
AddToHistory(p, t, readFails, writeFails) ==
  IF redisOn
  THEN LET h == GetHistory(p, readFails)
           pushed == PushedMem(h, mem[p], t)
       IN IF writeFails
          THEN /\ mem' = [mem EXCEPT ![p] = MemoryAppend(pushed, t)]
               /\ UNCHANGED redis
          ELSE /\ redis' = [redis EXCEPT ![RedisKey(p)] = ToWrite(h, mem[p], t)]
               /\ mem' = [mem EXCEPT ![p] = pushed]
  ELSE /\ mem' = [mem EXCEPT ![p] = MemoryAppend(@, t)]
       /\ UNCHANGED redis

StoreAppend(p, readFails, writeFails) ==
  /\ AddToHistory(p, StoreTurn(p), readFails, writeFails)
  /\ appended' = [appended EXCEPT ![p] = Append(@, StoreTurn(p))]
  /\ faults' = faults + (IF readFails THEN 1 ELSE 0) + (IF writeFails THEN 1 ELSE 0)
  /\ UNCHANGED <<cfgVars, coalVars, now, flushes, outbox>>

\* clearHistory(p), lines 332-348 / 655-670
StoreClear(p, delFails) ==
  /\ IF redisOn /\ ~delFails
     THEN redis' = [redis EXCEPT ![RedisKey(p)] = <<>>] /\ UNCHANGED mem
     ELSE mem' = [mem EXCEPT ![p] = <<>>] /\ UNCHANGED redis
  /\ appended' = [appended EXCEPT ![p] = <<>>]
  /\ faults' = Count(delFails)
  /\ UNCHANGED <<cfgVars, coalVars, now, flushes, outbox>>

StoreNoLog == [p \in StorePhones |-> <<>>]

InitStore ==
  /\ variant = 1
  /\ redisOn \in BOOLEAN
  /\ voiceOn = FALSE
  /\ redis = StoreNoLog
  /\ mem = StoreNoLog
  /\ buffer = StoreNoLog
  /\ timer = [p \in StorePhones |-> 0]
  /\ arrived = StoreNoLog
  /\ burstFrom = [p \in StorePhones |-> 0]
  /\ now = 0
  /\ flushes = <<>>
  /\ outbox = <<>>
  /\ faults = 0
  /\ appended = StoreNoLog
  /\ call = NoCall
  /\ reply = NoReply
  /\ prompt = NoPrompt
  /\ customer = NoCustomer
  /\ match = NoMatch
  /\ schedulers = NoSchedulers
  /\ inbound = NoInbound
  /\ reminders = NoReminders

\* the outcomes of a store call: it throws only where there is a store
StoreFails(n) == {FALSE} \cup {b \in {TRUE} : redisOn /\ faults + n < MaxStoreFaults}

TotalAppended == SumLen(appended, DOMAIN appended)

NextStore ==
  \/ \E p \in StorePhones, r \in StoreFails(0) : \E w \in StoreFails(IF r THEN 1 ELSE 0) :
        TotalAppended < MaxAppends /\ StoreAppend(p, r, w)
  \/ \E p \in StorePhones, d \in StoreFails(0) :
        appended[p] # <<>> /\ StoreClear(p, d)

SpecStore == InitStore /\ [][NextStore]_vars

(***************************************************************************)
(* Claims about the batch coalescer                                        *)
(***************************************************************************)
RECURSIVE BatchesOf(_, _)
BatchesOf(fs, p) ==
  IF fs = <<>> THEN <<>>
  ELSE (IF Head(fs).phone = p THEN Head(fs).batch ELSE <<>>) \o BatchesOf(Tail(fs), p)

TimerFires(p) == timer[p] # 0 /\ timer'[p] = 0

\* C1: the turns that arrive from the one that starts the debounce timer up to the
\* expiry of that timer are handed, in arrival order and together, to exactly one
\* flushConversation call: the expiry step invokes one flush whose batch is that
\* burst, and no other step invokes a flush.
C1_BurstFlushedOnce ==
  [][/\ \A p \in DOMAIN timer :
          TimerFires(p) =>
            /\ Len(flushes') = Len(flushes) + 1
            /\ flushes'[Len(flushes')].phone = p
            /\ flushes'[Len(flushes')].batch =
                 SubSeq(arrived[p], burstFrom[p], Len(arrived[p]))
            /\ Len(flushes'[Len(flushes')].batch) >= 1
     /\ Len(flushes') # Len(flushes) =>
          /\ Cardinality({p \in DOMAIN timer : TimerFires(p)}) = 1
          /\ \A i \in DOMAIN flushes : flushes'[i].batch = flushes[i].batch
    ]_vars

\* a burst of two or more turns was flushed
C1_Witness ==
  \E i \in DOMAIN flushes : Len(flushes[i].batch) >= 2

\* C9: every turn passed to onIncoming is in the batch of exactly one flush or
\* still in the pending batch: the batches of the flushes of a correspondent, in
\* invocation order, followed by the pending batch, are the turns that arrived,
\* each once and in arrival order; a capture leaves the pending batch empty.
C9_EachTurnInOneBatch ==
  /\ \A p \in DOMAIN buffer : BatchesOf(flushes, p) \o buffer[p] = arrived[p]
  /\ \A i \in DOMAIN flushes : flushes[i].batch # <<>>
  /\ \A p \in DOMAIN buffer : timer[p] = 0 => buffer[p] = <<>>

\* a second batch was captured while the flush of the first was still running
C9_Witness ==
  /\ Len(flushes) >= 2
  /\ flushes[1].phone = flushes[2].phone
  /\ flushes[1].pc \notin {"done"}
  /\ flushes[2].batch # <<>>

\* C10: a pending timer is the one the first turn of the pending batch started,
\* one window after that turn, whatever arrived since; every flush was invoked
\* one window after the first turn of its batch.
C10_TimerSetByFirstTurn ==
  /\ \A p \in DOMAIN timer :
        timer[p] # 0 =>
          /\ buffer[p] # <<>>
          /\ timer[p] = buffer[p][1].at + BatchWindow
  /\ \A i \in DOMAIN flushes :
        /\ flushes[i].batch # <<>>
        /\ flushes[i].at = flushes[i].batch[1].at + BatchWindow

\* a flush whose batch holds a turn that arrived later than the one that started
\* the timer
C10_Witness ==
  \E i \in DOMAIN flushes :
     /\ Len(flushes[i].batch) >= 2
     /\ flushes[i].batch[2].at > flushes[i].batch[1].at

\* the turns of the batches of the flushes of p invoked so far
FlushedTurns(p) == Range(BatchesOf(flushes, p))

\* C11: a flush that fails ends there: the step in which it fails leaves the
\* pending batch and the timer of its correspondent as they were and invokes no
\* flush; and a flush is only ever invoked with turns that no earlier flush was
\* given, so the batch of a failed flush is never flushed again and the next
\* flush of the correspondent takes a turn that arrived since.
C11_FailedBatchConsumed ==
  [][/\ \A i \in DOMAIN flushes :
          (~flushes[i].threw /\ flushes'[i].threw)
            => /\ buffer' = buffer
               /\ timer' = timer
               /\ Len(flushes') = Len(flushes)
               /\ flushes'[i].pc = "done"
     /\ Len(flushes') > Len(flushes)
          => LET n == flushes'[Len(flushes')]
             IN /\ n.batch # <<>>
                /\ Range(n.batch) \cap FlushedTurns(n.phone) = {}
                /\ \A k \in DOMAIN n.batch :
                      \A i \in DOMAIN flushes :
                         (flushes[i].phone = n.phone /\ flushes[i].threw)
                            => n.batch[k].ts > flushes[i].batch[Len(flushes[i].batch)].ts
    ]_vars

\* a flush failed and a later flush of the same correspondent was invoked
C11_Witness ==
  \E i, j \in DOMAIN flushes :
     /\ i < j
     /\ flushes[i].threw
     /\ flushes[j].phone = flushes[i].phone

(***************************************************************************)
(* Claims about flushConversation                                          *)
(***************************************************************************)
\* the flush has its first state read behind it and is not over
InFlight(f) == f.pc \notin {"read", "done"}

\* C2: at no time are two flushConversation calls of one correspondent both
\* between their first state read and their last persist or dispatch step.
C2_OneFlushPerCorrespondent ==
  \A i, j \in DOMAIN flushes :
     (i # j /\ flushes[i].phone = flushes[j].phone)
        => ~(InFlight(flushes[i]) /\ InFlight(flushes[j]))

\* C3: in the log of a correspondent no turn persisted by the flush of a later
\* batch stands before a turn persisted by the flush of an earlier batch.
C3_BatchOrderInLog ==
  \A p \in DOMAIN redis :
     \A a, b \in DOMAIN Log(p) :
        (a < b /\ Log(p)[a].by # 0 /\ Log(p)[b].by # 0)
           => Log(p)[a].by <= Log(p)[b].by

LogNext(p) == IF redisOn THEN redis'[RedisKey(p)] ELSE mem'[p]

\* C4: when a flush whose completion was not empty ends, the log is the log that
\* flush read at its start, then one user turn per turn of its batch in batch
\* order, then one agent turn, cut to the newest MaxHistoryMessages turns.
C4_FlushAppendsBatchAndReply ==
  [][\A i \in DOMAIN flushes :
        (/\ flushes[i].pc # "done" /\ flushes'[i].pc = "done"
         /\ ~flushes'[i].failed /\ ~flushes'[i].threw)
          => LET p == flushes[i].phone
                 after == LogNext(p)
                 expected == flushes[i].pre \o UserTurns(flushes[i].batch, i)
             IN /\ after # <<>>
                /\ after[Len(after)].role = "assistant"
                /\ after[Len(after)].by = i
                /\ after = Truncate(Append(expected, after[Len(after)]))
    ]_vars

\* an agent turn of a flush before flush i, still in the log of p, marks id
MarkedByEarlier(p, id, i) ==
  \E k \in DOMAIN Log(p) :
     /\ Log(p)[k].role = "assistant"
     /\ Log(p)[k].by < i
     /\ id \in Range(Log(p)[k].content.marks)

\* the agent turn of flush i, in the log of p, marks id
MarkedByOwn(p, id, i) ==
  \E k \in DOMAIN Log(p) :
     /\ Log(p)[k].role = "assistant"
     /\ Log(p)[k].by = i
     /\ id \in Range(Log(p)[k].content.marks)

\* the transport calls made by this step
NewlySent == {k \in DOMAIN outbox' : k \notin DOMAIN outbox}

\* C5: no flush calls sendMedia for an id while an agent turn of an earlier flush
\* that marks this id is in the log of the correspondent.
C5_NoRedispatchOfMarked ==
  [][\A k \in NewlySent :
        outbox'[k].kind = "media"
          => ~MarkedByEarlier(outbox'[k].to, outbox'[k].id, outbox'[k].by)
    ]_vars

\* an agent turn in the log of p marks id
Marked(p, id) ==
  \E k \in DOMAIN Log(p) :
     Log(p)[k].role = "assistant" /\ id \in Range(Log(p)[k].content.marks)

\* the sendMedia calls made so far for id to p that returned false
FailedDispatches(p, id) ==
  {j \in DOMAIN outbox :
     outbox[j].kind = "media" /\ outbox[j].to = p /\ outbox[j].id = id /\ ~outbox[j].ok}

\* C26: no flush calls sendMedia for an id whose earlier dispatch returned
\* false while an agent turn marking that id is in the log.
C26_FailedDispatchNotRetried ==
  [][\A k \in NewlySent :
        (outbox'[k].kind = "media" /\ Marked(outbox'[k].to, outbox'[k].id))
          => FailedDispatches(outbox'[k].to, outbox'[k].id) = {}
    ]_vars

\* C6: when a flush calls sendMedia for an id, its agent turn with the marker of
\* that id is already in the log.
C6_MarkedBeforeDispatch ==
  [][\A k \in NewlySent :
        outbox'[k].kind = "media"
          => MarkedByOwn(outbox'[k].to, outbox'[k].id, outbox'[k].by)
    ]_vars

SentBy(i) == {k \in DOMAIN outbox : outbox[k].by = i}

\* C7: a flush whose completion came back null or empty sends the apology, once,
\* sends nothing else, and no agent turn of it is ever in the store or in the
\* in-memory log.
C7_NullCompletionApologises ==
  \A i \in DOMAIN flushes :
     flushes[i].failed =>
       /\ Cardinality(SentBy(i)) <= 1
       /\ flushes[i].pc = "done" => Cardinality(SentBy(i)) = 1
       /\ \A k \in SentBy(i) :
             /\ outbox[k].kind = "apology"
             /\ outbox[k].to = flushes[i].phone
             /\ outbox[k].body = Apology
       /\ \A k \in DOMAIN redis[flushes[i].phone] :
             ~(redis[flushes[i].phone][k].by = i
               /\ redis[flushes[i].phone][k].role = "assistant")
       /\ \A k \in DOMAIN mem[flushes[i].phone] :
             ~(mem[flushes[i].phone][k].by = i
               /\ mem[flushes[i].phone][k].role = "assistant")

\* a flush with a null completion is over
C7_Witness ==
  \E i \in DOMAIN flushes : flushes[i].failed /\ flushes[i].pc = "done"

\* C35: a flush whose completion came back null or empty leaves the log as it
\* is: no step of it changes the store key or the in-memory log, and no turn of
\* it, user or agent, is in either of them.
TurnsBy(h, i) == {k \in DOMAIN h : h[k].by = i}

C35_NullCompletionLeavesLog ==
  [][\A i \in DOMAIN flushes' :
       flushes'[i].failed =>
          /\ TurnsBy(redis'[RedisKey(flushes'[i].phone)], i) = {}
          /\ TurnsBy(mem'[flushes'[i].phone], i) = {}
          /\ (i \in DOMAIN flushes /\ flushes'[i] # flushes[i]) =>
                redis' = redis /\ mem' = mem]_vars

\* a flush with a null completion is over while the log holds the turns of
\* another flush and none of its own
C35_Witness ==
  \E i \in DOMAIN flushes :
     /\ flushes[i].failed
     /\ flushes[i].pc = "done"
     /\ flushes[i].batch # <<>>
     /\ Log(flushes[i].phone) # <<>>
     /\ Log(flushes[i].phone) = flushes[i].pre

\* every turn of the log h was written by a flush of correspondent q
OwnTurnsOnly(h, q) ==
  \A k \in DOMAIN h : h[k].by \in DOMAIN flushes /\ flushes[h[k].by].phone = q

\* C12: a step changes the store key or the in-memory entry of a correspondent
\* only when it is a step of a flush of that correspondent; the logs of a
\* correspondent, and the history each of its flushes read, hold only turns
\* written by its own flushes.
C12_OtherLogsUntouched ==
  [][\A q \in DOMAIN mem :
        /\ (redis'[RedisKey(q)] # redis[RedisKey(q)] \/ mem'[q] # mem[q])
              => \E i \in DOMAIN flushes :
                    flushes[i].phone = q /\ flushes'[i] # flushes[i]
        /\ OwnTurnsOnly(redis[RedisKey(q)], q)'
        /\ OwnTurnsOnly(mem[q], q)'
        /\ \A i \in DOMAIN flushes' :
              flushes'[i].phone = q => OwnTurnsOnly(flushes[i].hist.val, q)'
    ]_vars

\* flushes of two correspondents are in flight together and both have persisted
C12_Witness ==
  \E i, j \in DOMAIN flushes :
     /\ flushes[i].phone # flushes[j].phone
     /\ InFlight(flushes[i]) /\ InFlight(flushes[j])
     /\ Log(flushes[i].phone) # <<>>
     /\ Log(flushes[j].phone) # <<>>

(***************************************************************************)
(* Claims about media dispatch and the reply                               *)
(***************************************************************************)
\* the sendMedia calls of flush i, in call order
MediaSentBy(i) == SelectSeq(outbox, LAMBDA e : e.by = i /\ e.kind = "media")

\* the ids of the lines of resp that the loaded revision reads as directives, in
\* line order
RECURSIVE LineIds(_)
LineIds(lines) ==
  IF lines = <<>> THEN <<>>
  ELSE (IF Head(lines).tag # NoTag THEN <<Head(lines).tag>>
        ELSE IF variant = 2 /\ Head(lines).marks # <<>> THEN <<Head(Head(lines).marks)>>
        ELSE <<>>) \o LineIds(Tail(lines))

\* a is b with some elements left out
RECURSIVE IsSubseq(_, _)
IsSubseq(a, b) ==
  IF a = <<>> THEN TRUE
  ELSE IF b = <<>> THEN FALSE
  ELSE IF Head(a) = Head(b) THEN IsSubseq(Tail(a), Tail(b))
  ELSE IsSubseq(a, Tail(b))

\* C15: the media a flush dispatched so far went out one after the other in the
\* order of their directives in the response (the dispatched ids are the
\* directive ids with some left out), and the pause before an item is
\* MEDIA_DELAY_MS for every item but the first, before which there is none.
C15_MediaInDirectiveOrder ==
  \A i \in DOMAIN flushes :
     LET m == MediaSentBy(i) IN
     /\ IsSubseq(IdsOf(m), LineIds(flushes[i].resp))
     /\ Len(m) = flushes[i].k
     /\ \A k \in DOMAIN m : m[k].wait = (IF k = 1 THEN 0 ELSE MEDIA_DELAY_MS)

\* a flush dispatched media 2 and then media 1
C15_Witness ==
  \E i \in DOMAIN flushes :
     /\ IdsOf(MediaSentBy(i)) = <<2, 1>>
     /\ flushes[i].pc = "done"

\* the agent turn of flush i is in the log h
HoldsAgentTurn(h, i) == \E k \in DOMAIN h : h[k].role = "assistant" /\ h[k].by = i

\* C16: when a flush dispatches its text or voice reply, its agent turn is in
\* the log of the correspondent (in the store, or in the in-memory log when the
\* store write failed), and it is still there when the dispatch has returned,
\* whatever it returned.
C16_PersistedBeforeReply ==
  [][\A k \in NewlySent :
        outbox'[k].kind \in {"text", "voice"}
          => LET i == outbox'[k].by
                 p == outbox'[k].to
             IN /\ HoldsAgentTurn(redis[RedisKey(p)], i) \/ HoldsAgentTurn(mem[p], i)
                /\ HoldsAgentTurn(redis'[RedisKey(p)], i) \/ HoldsAgentTurn(mem'[p], i)
    ]_vars

\* how many times x occurs in the sequence q
Occurrences(q, x) == Len(SelectSeq(q, LAMBDA y : y = x))

\* the markers of the agent turns of flush i in the log h
RECURSIVE MarkersBy(_, _)
MarkersBy(h, i) ==
  IF h = <<>> THEN <<>>
  ELSE (IF Head(h).role = "assistant" /\ Head(h).by = i
        THEN Head(h).content.marks ELSE <<>>) \o MarkersBy(Tail(h), i)

\* the ids flush i called sendMedia for
DispatchedIds(i) == {MediaSentBy(i)[k].id : k \in DOMAIN MediaSentBy(i)}

\* C36: when a flush is over, the ids its persisted agent turn marks as sent are
\* the ids it called sendMedia for: none is marked without a dispatch and none
\* is dispatched without being marked.
C36_MarkedIffDispatched ==
  \A i \in DOMAIN flushes :
     LET p == flushes[i].phone IN
     flushes[i].pc = "done" =>
        /\ HoldsAgentTurn(redis[RedisKey(p)], i) =>
              Range(MarkersBy(redis[RedisKey(p)], i)) = DispatchedIds(i)
        /\ HoldsAgentTurn(mem[p], i) =>
              Range(MarkersBy(mem[p], i)) = DispatchedIds(i)

\* the voice replies and the text replies of flush i
VoiceSentBy(i) == SelectSeq(outbox, LAMBDA e : e.by = i /\ e.kind = "voice")
TextSentBy(i) == SelectSeq(outbox, LAMBDA e : e.by = i /\ e.kind = "text")

\* C37: a flush tries a voice reply only when it sent no media; when the voice
\* reply went out no text message is sent; and a flush that is over without a
\* voice reply has sent its prose, when there is some, as one text message.
C37_OneReplyChannel ==
  \A i \in DOMAIN flushes :
     /\ flushes[i].pc = "voice" => MediaSentBy(i) = <<>>
     /\ Len(VoiceSentBy(i)) + Len(TextSentBy(i)) <= 1
     /\ VoiceSentBy(i) # <<>> => MediaSentBy(i) = <<>>
     /\ TextSentBy(i) # <<>> => HasProse(flushes[i].resp)
     /\ (/\ flushes[i].pc = "done"
         /\ ~flushes[i].failed
         /\ ~flushes[i].threw
         /\ VoiceSentBy(i) = <<>>
         /\ HasProse(flushes[i].resp)) => Len(TextSentBy(i)) = 1

\* a flush delivered its reply as a voice message and nothing else, and another
\* flush sent media and then its prose as text
C37_Witness ==
  \E i, j \in DOMAIN flushes :
     /\ flushes[i].pc = "done"
     /\ Len(VoiceSentBy(i)) = 1
     /\ TextSentBy(i) = <<>>
     /\ flushes[j].pc = "done"
     /\ MediaSentBy(j) # <<>>
     /\ VoiceSentBy(j) = <<>>
     /\ Len(TextSentBy(j)) = 1

\* C17: whatever [MEDIA: id] directives a response holds, and however often it
\* repeats one, the flush calls sendMedia at most once for an id and its agent
\* turn holds at most one marker of an id (responses that themselves contain
\* marker text are left aside).
C17_RepeatedDirectiveOnce ==
  \A i \in DOMAIN flushes :
     MarksOf(flushes[i].resp) = <<>> =>
       \A id \in 1..(CatalogSize + 1) :
          /\ Occurrences(IdsOf(MediaSentBy(i)), id) <= 1
          /\ Occurrences(MarkersBy(redis[RedisKey(flushes[i].phone)], i), id) <= 1
          /\ Occurrences(MarkersBy(mem[flushes[i].phone], i), id) <= 1

PlainLine(line) ==
  /\ line # <<>>
  /\ Trim(line) = line
  /\ ~HasMediaTag(line)
  /\ ~HasSentMarker(line)

\* lines is prose, the directive line k, its caption line, then prose
DirectiveWithCaptionAt(lines, k) ==
  /\ 2 <= k
  /\ k + 2 <= Len(lines)
  /\ Len(lines[k]) = 1
  /\ IsMediaTag(lines[k][1])
  /\ \A j \in DOMAIN lines : j # k => PlainLine(lines[j])

\* C18: when the lines of a response are prose, one line "[MEDIA: id]", a
\* caption line and prose again, parsing yields the prose lines joined in their
\* order, without the directive line and the caption line, and exactly one
\* media request, with that id and that caption.
C18_DirectiveWithCaptionParsed ==
  reply.pc \in {"parsed", "text"} =>
    LET lines == Split(reply.response) IN
    \A k \in DOMAIN lines :
       DirectiveWithCaptionAt(lines, k) =>
         /\ reply.textContent =
              Join(SubSeq(lines, 1, k - 1) \o SubSeq(lines, k + 2, Len(lines)))
         /\ reply.mediaRequests =
              <<[id |-> lines[k][1].id, caption |-> lines[k + 1]]>>

C18_Witness ==
  /\ reply.pc = "parsed"
  /\ LET lines == Split(reply.response) IN
       /\ DirectiveWithCaptionAt(lines, 2)
       /\ Len(lines) = 4
       /\ lines[1] # lines[4]
       /\ lines[3] # lines[4]

\* the lines of a text that are not blank
NonBlankLines(text) == SelectSeq(Split(text), LAMBDA l : Trim(l) # <<>>)

\* C19: when a response holds no directive tag and no marker and a text is
\* dispatched for it, parsing yields no media request and the text dispatched
\* is the response, token for token.
C19_NoDirectiveTextUnchanged ==
  (/\ reply.pc = "text"
   /\ reply.text # <<>>
   /\ ~HasMediaTag(reply.response)
   /\ ~HasSentMarker(reply.response)) =>
    /\ reply.mediaRequests = <<>>
    /\ reply.text = reply.response

\* C20: the lines of the text passed to the text dispatch are the lines the
\* parser kept as prose (not empty, not a directive, not a caption), each one
\* token for token and in the order of the response.
C20_ProseLinesVerbatim ==
  reply.pc = "text" => NonBlankLines(reply.text) = reply.textLines

\* C21: a response that holds sent-media markers and no directive tag yields
\* no media request: a marker line is never taken as a directive.
C21_MarkerIsNoDirective ==
  (/\ reply.pc \in {"parsed", "text"}
   /\ HasSentMarker(reply.response)
   /\ ~HasMediaTag(reply.response)) => reply.mediaRequests = <<>>

(***************************************************************************)
(* Claims about the send operations                                        *)
(***************************************************************************)
\* what C13 says of one send call c
SendCallWithinContract(c) ==
  LET n == Len(c.outcomes) IN
  /\ n <= 1 + MAX_RETRIES
  /\ c.retryCount <= MAX_RETRIES
  /\ \A k \in 1..(n - 1) : c.outcomes[k] = "429"
  /\ c.pc \in {"idle", "post", "wait", "returned"}
  /\ c.pc = "post" => n = c.retryCount
  /\ c.pc = "wait" => n = c.retryCount + 1 /\ c.outcomes[n] = "429"
  /\ c.pc = "returned" =>
        /\ n = c.retryCount + 1
        /\ c.result \in BOOLEAN
        /\ c.result = (c.outcomes[n] = "ok")

\* C13: a send call ends by returning a boolean, true exactly when its last
\* attempt succeeded; it makes at most 1 + MAX_RETRIES attempts, and each attempt
\* but the last one failed with a rate-limit (429) error.
C13_SendReturnsBoolean ==
  /\ SendCallWithinContract(call)
  /\ \A k \in DOMAIN outbox : SendCallWithinContract(outbox[k])

\* a call returned false after 1 + MAX_RETRIES rate-limited attempts, and
\* another returned false after one failure of another kind
C13_Witness ==
  /\ call.pc = "returned" /\ ~call.result
  /\ Len(call.outcomes) = 1 + MAX_RETRIES
  /\ call.outcomes[1 + MAX_RETRIES] = "429"
  /\ \E k \in DOMAIN outbox :
        outbox[k].outcomes \in {<<"http">>, <<"error">>} /\ ~outbox[k].result

C23_WriteFailureServedFromMemory ==
  [][\A i \in DOMAIN flushes :
       (flushes[i].pc = "aset" /\ flushes'[i].pc # "aset" /\ faults' > faults) =>
          LET p == flushes[i].phone IN
          /\ mem'[p] # <<>>
          /\ mem'[p][Len(mem'[p])] = Head(flushes[i].q)
          /\ redis'[RedisKey(p)] = mem'[p]]_vars

\* C24: right after clearHistory(p) returned, getHistory(p) returns the empty
\* log whether its store read succeeds or throws.
C24_ClearedLogIsEmpty ==
  [][\A p \in DOMAIN appended :
       (appended[p] # <<>> /\ appended'[p] = <<>>) =>
          /\ mem'[p] = <<>>
          /\ redisOn => redis'[RedisKey(p)] = <<>>]_vars

\* h2 is a suffix of h followed by t
IsSuffixPlus(h2, h, t) ==
  \E k \in 0..Len(h) : h2 = Append(SubSeq(h, k + 1, Len(h)), t)

\* C25: every addToHistory(p, t) call leaves as the log of p a suffix of the
\* log it found, followed by t.
C25_AppendOnly ==
  [][\A p \in DOMAIN appended :
       Len(appended'[p]) = Len(appended[p]) + 1 =>
          IsSuffixPlus(LogNext(p), Log(p), appended'[p][Len(appended'[p])])]_vars

\* C33: an addToHistory(p, t) call of a turn t that is in neither tier leaves
\* exactly one copy of t in the tier it wrote (the store key when redis.setex
\* returned, the in-memory log otherwise) and never two copies in a tier,
\* whether its store read and its store write succeed or throw.
C33_AppendedExactlyOnce ==
  [][\A p \in DOMAIN appended :
       LET t == appended'[p][Len(appended'[p])] IN
       (/\ Len(appended'[p]) = Len(appended[p]) + 1
        /\ Occurrences(mem[p], t) = 0
        /\ Occurrences(redis[RedisKey(p)], t) = 0) =>
          /\ Occurrences(mem'[p], t) <= 1
          /\ Occurrences(redis'[RedisKey(p)], t) <= 1
          /\ IF redisOn /\ redis' # redis
             THEN Occurrences(redis'[RedisKey(p)], t) = 1
             ELSE Occurrences(mem'[p], t) = 1]_vars

\* C34: read your writes: after an addToHistory(p, t) call returned, the log
\* the next getHistory(p) returns when its store read succeeds ends with t,
\* whether the store calls inside addToHistory succeeded or threw.
C34_ReadYourWrites ==
  [][\A p \in DOMAIN appended :
       Len(appended'[p]) = Len(appended[p]) + 1 =>
          /\ LogNext(p) # <<>>
          /\ LogNext(p)[Len(LogNext(p))] = appended'[p][Len(appended'[p])]]_vars

\* C28: every flushConversation call returns: whatever its store, completion,
\* prompt, voice and transport calls do, the flush reaches its end.
C28_FlushAlwaysReturns ==
  (1 \in DOMAIN flushes) ~> (1 \in DOMAIN flushes /\ flushes[1].pc = "done")

\* a flush whose prompt or completion call threw is over
C28_Witness ==
  \E i \in DOMAIN flushes : flushes[i].threw /\ flushes[i].pc = "done"

(***************************************************************************)
(* Claims about the prompt                                                 *)
(***************************************************************************)
\* the batch holds text that is not blank
HasQueryText(batch) == \E k \in DOMAIN batch : Trim(batch[k].text) # <<>>

\* C29: buildPromptMessages returns one system message with the instructions
\* and the catalog, then the retrieval message exactly when the batch holds text
\* and the search returned a snippet, then one message per turn of the log in
\* log order with the role of the turn, then one user message for the batch.
C29_PromptOrder ==
  prompt.pc = "built" =>
    LET m == prompt.messages
        rag == IF HasQueryText(prompt.batch) /\ prompt.chunks > 0 THEN 1 ELSE 0
        h == prompt.history
    IN /\ Len(m) = 1 + rag + Len(h) + 1
       /\ m[1] = Message("system", "systemPrompt", prompt.catalog)
       /\ rag = 1 => m[2] = Message("system", "rag", prompt.chunks)
       /\ \A k \in DOMAIN h :
             /\ m[1 + rag + k].role = h[k].role
             /\ m[1 + rag + k].content = [kind |-> "turn", body |-> h[k].content]
       /\ m[Len(m)].role = "user"
       /\ m[Len(m)].content.kind = "batch"
       /\ m[Len(m)].content.body.batch = prompt.batch
       /\ \A k \in 1..(Len(m) - 1) : m[k].content.kind # "batch"

\* a prompt with a retrieval message, two turns of different roles and a batch
C29_Witness ==
  /\ prompt.pc = "built"
  /\ Len(prompt.messages) = 5
  /\ prompt.messages[2].content.kind = "rag"
  /\ prompt.history[1].role # prompt.history[2].role

\* C30: the profile of a correspondent is written only when there is none and
\* the log of the correspondent is empty, hence at most once.
C30_ProfileWrittenOnce ==
  [][\A p \in DOMAIN customer :
       customer'[p] # customer[p] => customer[p] = <<>> /\ Log(p) = <<>>]_vars

\* C31: the profile operations never abort a flush: a step of a flush out of
\* getCustomerInfo, translateNameAndDetectGender or saveCustomerInfo leaves it
\* running and not thrown; a profile read that failed, or without store, gives
\* no stored profile; a save that failed, or without store, writes nothing and
\* the flush goes on to the completion call with the translated profile; a
\* failed classification gives the gender "unknown" and the flush goes on.
ProfilePcs == {"cget", "cname", "cset"}

ScoreOf(k) == Score(Description(match.catalog[k]), QueryTokens(match.query))

\* C32: findBestMatch answers null when the query is empty, the catalog is
\* empty or every entry scores zero; otherwise it answers the entry of the
\* highest score, the earliest one in catalog order when several have it.
C32_BestMatch ==
  match.pc = "done" =>
     IF \/ match.query = <<>>
        \/ match.catalog = <<>>
        \/ \A k \in DOMAIN match.catalog : ScoreOf(k) = 0
     THEN match.result = 0
     ELSE /\ match.result \in DOMAIN match.catalog
          /\ ScoreOf(match.result) > 0
          /\ \A k \in DOMAIN match.catalog : ScoreOf(k) <= ScoreOf(match.result)
          /\ \A k \in 1..(match.result - 1) : ScoreOf(k) < ScoreOf(match.result)

\* two entries of the same positive score, through the roots of two tokens:
\* the first entry is the match
C32_Witness ==
  /\ match.pc = "done"
  /\ Len(match.catalog) = 2
  /\ match.catalog[1] # match.catalog[2]
  /\ Len(QueryTokens(match.query)) = 2
  /\ ScoreOf(1) = 2
  /\ ScoreOf(2) = 2
  /\ match.result = 1

(***************************************************************************)
(* Claims about the summary scheduler                                      *)
(***************************************************************************)
\* C38: at most one summary timer is pending for the phone, and the entry that
\* is registered is removed only by a step after which its own timer is no
\* longer pending (the timer fired, or clearSummaryTimer cleared it), or by a
\* resetSummaryTimer that registers the next entry.
C38_SummaryEntryKept ==
  [][/\ Cardinality(schedulers'.pending) <= 1
     /\ (schedulers.entry # 0 /\ schedulers'.entry = 0) =>
           schedulers.entry \notin schedulers'.pending]_vars

(***************************************************************************)
(* Claims about opt-out                                                    *)
(***************************************************************************)
TextsBy(k) == SelectSeq(inbound.texts, LAMBDA e : e.by = k)

\* C39: a message classified as an opt-out with a confidence other than low is
\* never handed to the buffer; when its setOptOut call has returned the opt-out
\* flag is set, and when its processMessage call is over one confirmation text
\* and nothing else was sent for it; and when a message goes on from the
\* opt-out check to its processing the opt-out flag is not set.
C39_OptOutNotBuffered ==
  [][\A k \in DOMAIN inbound.msgs :
       LET m == inbound.msgs[k]
           n == inbound'.msgs[k]
       IN
       /\ IsOptOut(n.detection) =>
             /\ k \notin Range(inbound'.buffered)
             /\ n.pc = "done" =>
                   /\ Len(TextsBy(k)') = 1
                   /\ TextsBy(k)'[1].kind = "optout"
             /\ (m.pc = "set" /\ n.pc = "confirm") => inbound'.flag
       /\ (m.pc \in {"isOptedOut", "clear"} /\ n.pc \in {"detect", "media"}) =>
             ~inbound'.flag]_vars

(***************************************************************************)
(* Claims about the meeting reminders                                      *)
(***************************************************************************)
\* the sends of a kind that returned true
SentOk(kind) ==
  {j \in DOMAIN reminders.sent : reminders.sent[j].kind = kind /\ reminders.sent[j].ok}

\* C40: over all ticks each kind of reminder is sent successfully at most once
\* for the stored meeting; a reminder is sent only while its flag is false in
\* the meeting the run holds; and a flag is true in the store only after a
\* send of its kind returned true.
C40_ReminderSentOnce ==
  /\ Cardinality(SentOk("day")) <= 1
  /\ Cardinality(SentOk("before")) <= 1
  /\ \A j \in DOMAIN reminders.sent : ~reminders.sent[j].flag
  /\ reminders.flags.sentDayReminder => SentOk("day") # {}
  /\ reminders.flags.sentBeforeReminder => SentOk("before") # {}

\* C8: the log getHistory returns, whether its store read succeeds or throws, is
\* never longer than config.maxHistoryMessages.
C8_LogWithinCap ==
  \A p \in DOMAIN mem : \A fail \in BOOLEAN :
     Len(GetHistory(p, fail).val) <= MaxHistoryMessages

====
